---- MODULE Spec2Model ----
(***************************************************************************)
(* Model of srl-labs/bond: the notification stream lifecycle (stream       *)
(* creation, subscription, the receive pump and the topic receivers), the  *)
(* configuration commit handling, the tracked state paths and the path     *)
(* translation between XPath and JSPath notation.                          *)
(*                                                                         *)
(* Three specifications share the module's variables:                      *)
(*   Spec / FairSpec  one notification topic: receiver task, pump task,    *)
(*                    the application reading the output channel, and the  *)
(*                    cancellation of the agent context;                   *)
(*   StateSpec        UpdateState / DeleteState on the tracked paths;      *)
(*   PathSpec         convertXPathToJSPath / convertJSPathToXPath.         *)
(* Strings that the code scans character by character are sequences of     *)
(* one-character strings.                                                  *)
(***************************************************************************)
EXTENDS Integers, Sequences, FiniteSets, TLC

VARIABLES
    topic,          \* "config" or "route": the topic this run starts
    streamConfig,   \* Agent.streamConfig
    cancelled,      \* ctx.Done() is closed
    exited,         \* the process terminated through logger.Fatal
    rxPc,           \* position of the receiver task (receiveConfigNotifications / ReceiveRouteNotifications)
    streamID,       \* value returned by createNotificationStream (0: not yet)
    issued,         \* daemon side: stream handles handed out in successful create responses
    subCalls,       \* number of AddSubscription calls issued
    errCount,       \* injected RPC / receive failures so far (bounded by MaxErr)
    pumpPc,         \* position of the pump task (startNotificationStream)
    client,         \* id of the stream client the pump holds (0: none)
    failedClient,   \* id of the client whose Recv last returned EOF or an error (0: none)
    recvCount,      \* envelopes returned by Recv so far
    held,           \* envelope the pump has received and not yet handed over: its number and length
    chanClosed,     \* streamChan is closed
    cur,            \* envelope the receiver is iterating over
    idx,            \* index in cur of the notification being handled
    curNotif,       \* the notification at that index, once the receiver has read it and is sending
    fetchLog,       \* the markers for which getConfigWithGNMI was called: id, and whether commit_seq parsed to 0
    fullConfig,     \* Notifications.FullConfig
    delivered,      \* what the application has taken from its channels, in order: notification id, channel, zero-sequence marker or not
    lastItem,       \* the value the application took last
    outClosed,      \* the application-facing Route channel is closed
    nzHandled,      \* number of terminal markers whose commit_seq does not parse to 0 that the handler has iterated over
    zHandled,       \* number of terminal markers whose commit_seq parses to 0 that the handler has iterated over
    plHandled,      \* number of notifications with the topic's payload that the handler has iterated over
    paths,          \* Agent.paths, the tracked path set
    appRootPath,    \* Agent.appRootPath
    stLast,         \* the last state call: operation, argument, pre-state, result, RPCs issued
    lastUpdated,    \* the path arguments whose most recent successful state call is UpdateState
    rootFresh,      \* WithAppRootPath was given and no state call on that path has succeeded yet
    pIn,            \* path translation: the input
    pJs,            \* path translation: convertXPathToJSPath(pIn), once computed
    pBack,          \* path translation: convertJSPathToXPath(pJs), once computed
    pPc,            \* path translation: position
    opts,           \* NewAgent: the options passed, in order
    optIdx,         \* NewAgent: index of the option the loop applies next
    agent,          \* NewAgent: the fields of the Agent under construction that the options set
    errs,           \* NewAgent: the error list
    applied,        \* NewAgent: indices of the options that were called, in order
    naPc,           \* NewAgent: position
    ret,            \* NewAgent: what it returned as *Agent: "none" (not yet), "nil" or "agent"
    outQ,           \* notifications written to the output channel and not yet read
    subResult,      \* what the add-subscription call returned: "none" (not called), "ok", "failed"
    handleUsed,     \* the stream handles sent in AddSubscription and NotificationStream requests
    lastFetch,      \* what the last gNMI Get of getConfigWithGNMI returned: "none" (no fetch yet), "ok", "empty", "error"
    appReads,       \* the application reads Notifications.FullConfig after each signal it receives
    reading,        \* the commit whose signal the application received and whose configuration it is about to read
    readGot,        \* the last read of Notifications.FullConfig by the application
    kaPc,           \* keepAlive: position
    errCounter,     \* keepAlive: errCounter
    threshold,      \* keepAliveConfig.threshold
    probes,         \* KeepAlive RPCs sent so far
    failedSince,    \* 'failed' responses since the last 'success' response
    lastProbe,      \* what the last KeepAlive RPC came back with: "none", "err", "success", "failed"
    stPc,           \* Start: position
    stopPc,         \* the goroutine of exitHandler and stop(): position
    lifeLog,        \* the steps Start and stop() have performed, in order, with their outcome
    kaSet,          \* keepAliveConfig.IsSet()
    procExited,     \* the process was terminated by logger.Fatal
    ctxCancelled,   \* a.cancel() was called
    tasks,          \* the goroutines Start launches: "none", "running", "stopped"
    agentCfg,       \* the option fields of the Agent the application calls
    opKind,         \* the call in progress: "none", "route", "nhg", "ack"
    opPc,           \* position in the call in progress
    opCalls,        \* the RPCs the call in progress has issued, in order, with their outcome
    opRet,          \* what the last completed call returned
    opCount         \* calls started so far

streamVars == <<topic, streamConfig, cancelled, exited, rxPc, streamID, issued,
                subCalls, errCount, pumpPc, client, failedClient, recvCount, held,
                chanClosed, cur, idx, curNotif, fetchLog, fullConfig, delivered,
                lastItem, outClosed, nzHandled, zHandled, plHandled, outQ, subResult, handleUsed, lastFetch, appReads, reading, readGot>>
stateVars == <<paths, appRootPath, stLast, lastUpdated, rootFresh>>
pathVars == <<pIn, pJs, pBack, pPc>>
optVars == <<opts, optIdx, agent, errs, applied, naPc, ret>>
kaVars == <<kaPc, errCounter, threshold, probes, failedSince, lastProbe>>
lifeVars == <<stPc, stopPc, lifeLog, kaSet, procExited, ctxCancelled, tasks>>
opVars == <<agentCfg, opKind, opPc, opCalls, opRet, opCount>>
vars == <<streamVars, stateVars, pathVars, optVars, kaVars, lifeVars, opVars>>

----------------------------------------------------------------------------
(* Bounds *)

MaxRecv == 2        \* envelopes the daemon sends on one stream
MaxNotifs == 2      \* notifications in one envelope
MaxErr == 2         \* injected failures (RPC errors, EOF, receive errors)
MaxSeq == 1         \* largest commit_seq value
MaxHandle == 2      \* stream handles the daemon can hand out

MaxSegs == 2        \* segments of a generated hierarchical path
MaxPreds == 1       \* key predicates on one segment of a generated path

MaxOpts == 4        \* options passed to NewAgent

MaxThreshold == 3   \* largest keepAliveConfig.threshold
MaxProbes == 5      \* KeepAlive RPCs sent in one run

MaxSub == 2         \* add-subscription calls followed for one topic

MaxOps == 2         \* calls the application makes one after the other

----------------------------------------------------------------------------
(* PathTranslator: path.go (convertXPathToJSPath, replaceAllIgnoreKeys)    *)
(* and the convertJSPathToXPath of the same file's later revision.         *)

\* index of the first "]" at or after position i of path, 0 when there is none
RECURSIVE FirstClose(_, _)
FirstClose(path, i) ==
    IF i > Len(path) THEN 0
    ELSE IF path[i] = "]" THEN i
    ELSE FirstClose(path, i + 1)

\* regexp `\[.*?\]|(old)` applied with ReplaceAllStringFunc from position i:
\* a bracket block (from "[" to the nearest "]") is the match and is kept as it
\* is, a lone occurrence of oldStr is the match and becomes newStr.
RECURSIVE ReplaceFrom(_, _, _, _)
ReplaceFrom(path, i, oldStr, newStr) ==
    IF i > Len(path) THEN <<>>
    ELSE IF path[i] = "[" /\ FirstClose(path, i + 1) # 0
         THEN SubSeq(path, i, FirstClose(path, i + 1))
                  \o ReplaceFrom(path, FirstClose(path, i + 1) + 1, oldStr, newStr)
    ELSE IF path[i] = oldStr
         THEN <<newStr>> \o ReplaceFrom(path, i + 1, oldStr, newStr)
    ELSE <<path[i]>> \o ReplaceFrom(path, i + 1, oldStr, newStr)

\* strings.ReplaceAll in place of the keyed pattern: bracket blocks are not skipped
replaceAllKeysToo(path, oldStr, newStr) ==
    [i \in 1..Len(path) |-> IF path[i] = oldStr THEN newStr ELSE path[i]]

replaceAllIgnoreKeys(path, oldStr, newStr) == ReplaceFrom(path, 1, oldStr, newStr)

\* the switch over the characters of p in convertXPathToJSPath
RECURSIVE XPathKeysToJS(_)
XPathKeysToJS(p) ==
    IF p = <<>> THEN <<>>
    ELSE (CASE Head(p) = "[" -> <<"{", ".">>
            [] Head(p) = "]" -> <<"\"", "}">>
            [] Head(p) = "=" -> <<"=", "=", "\"">>
            [] OTHER -> <<Head(p)>>) \o XPathKeysToJS(Tail(p))

\* the conversion without its second replacement: hyphens of segment names stay
convertXPathToJSPathSeparatorsOnly(xp) ==
    IF xp = <<>> THEN <<>>
    ELSE XPathKeysToJS(replaceAllIgnoreKeys(xp, "/", "."))

convertXPathToJSPath(xp) ==
    IF xp = <<>> THEN <<>>
    ELSE XPathKeysToJS(replaceAllIgnoreKeys(replaceAllIgnoreKeys(xp, "/", "."), "-", "_"))

\* the loop `for i := 0; i < len(p)-1; i++` of convertJSPathToXPath; i is the
\* 1-based index of the first character of the two-character window.
RECURSIVE JSKeysToXPath(_, _)
JSKeysToXPath(p, i) ==
    IF i >= Len(p) THEN <<>>
    ELSE LET str == <<p[i], p[i + 1]>> IN
         CASE str = <<"{", ".">> -> <<"[">> \o JSKeysToXPath(p, i + 2)
           [] str = <<"\"", "}">> -> <<"]">> \o JSKeysToXPath(p, i + 2)
           [] str = <<"=", "=">> -> <<"=">> \o JSKeysToXPath(p, i + 3)
           [] OTHER -> <<str[1]>>
                        \o (IF i = Len(p) - 1 THEN <<str[2]>> ELSE <<>>)
                        \o JSKeysToXPath(p, i + 1)

convertJSPathToXPath(jsPath) ==
    IF jsPath = <<>> THEN <<>>
    ELSE replaceAllIgnoreKeys(
             JSKeysToXPath(replaceAllIgnoreKeys(jsPath, "_", "-"), 1), ".", "/")

----------------------------------------------------------------------------
(* Notifications and envelopes (ndk.NotificationStreamResponse)            *)

CommitEndKeyPath == <<".", "c", "o", "m", "m", "i", "t", ".", "e", "n", "d">>
ListJsPath == <<".", "g", ".", "l">>
ListJsPathWithKeys == <<".", "g", ".", "l", "{", ".", "n", "=", "=", "\"", "e", "\"", "}">>

\* Data.Json as json.Unmarshal into CommitSeq sees it: not parsable, or the
\* value of commit_seq (0 when the field is absent).
JsonVals == {[valid |-> FALSE, seq |-> 0]} \cup {[valid |-> TRUE, seq |-> s] : s \in 0..MaxSeq}
NoJson == [valid |-> TRUE, seq |-> 0]
\* Data.Json of a list entry: an object without commit_seq, or (the entry was
\* deleted, Data is empty) text that json.Unmarshal rejects
ListJsonVals == {NoJson, [valid |-> FALSE, seq |-> 0]}

\* a notification without the typed payload of the topic (GetConfig() / GetRoute() is nil)
NilNotif == [payload |-> FALSE, jsPath |-> <<>>, jsPathWithKeys |-> <<>>, json |-> NoJson]

ConfigNotifs ==
    {NilNotif}
    \cup {[payload |-> TRUE, jsPath |-> CommitEndKeyPath,
           jsPathWithKeys |-> CommitEndKeyPath, json |-> j] : j \in JsonVals}
    \cup {[payload |-> TRUE, jsPath |-> ListJsPath,
           jsPathWithKeys |-> ListJsPathWithKeys, json |-> j] : j \in ListJsonVals}

RouteNotifs == {NilNotif, [payload |-> TRUE, jsPath |-> <<>>, jsPathWithKeys |-> <<>>, json |-> NoJson]}

NotifsOf(t) == IF t = "config" THEN ConfigNotifs ELSE RouteNotifs

\* An envelope is carried by its number in the order of receipt and the number
\* of notifications in it.  What a notification holds is drawn from
\* NotifsOf(topic) when the receiver reads it: nothing before that reads it.
NoEnvelope == [eid |-> 0, len |-> 0]
NoConfig == [set |-> FALSE, at |-> <<0, 0>>]
NoCfgNotif == [path |-> <<>>, pathWithoutKeys |-> <<>>, json |-> NoJson]
NoItem == [what |-> "none", json |-> NoJson, cfg |-> NoCfgNotif]
NoRead == [id |-> <<0, 0>>, cfg |-> NoConfig]
NoReadGot == [for |-> <<0, 0>>, want |-> NoConfig, got |-> NoConfig]

\* responses of NotificationRegister(Create)
CreateResponses ==
    {[err |-> TRUE, status |-> "success", streamId |-> 0],
     [err |-> FALSE, status |-> "failed", streamId |-> 0]}
    \cup {[err |-> FALSE, status |-> "success", streamId |-> h] : h \in 1..MaxHandle}

----------------------------------------------------------------------------
(* ConfigCommitTracker helpers: config_notification.go                     *)

isCommitSeqZeroNever(json) == FALSE

isCommitSeqZeroOnError(json) == IF ~json.valid THEN TRUE ELSE json.seq = 0

\* json.Unmarshal failed: the error is logged and the answer is false
isCommitSeqZero(json) == IF ~json.valid THEN FALSE ELSE json.seq = 0

commitEndReceivedAnySeq(n) == n.jsPath = CommitEndKeyPath

commitEndReceivedAnyPath(n) == ~isCommitSeqZero(n.json)

\* the condition under which handleConfigNotifications fetches and signals
commitEndReceived(n) == n.jsPath = CommitEndKeyPath /\ ~isCommitSeqZero(n.json)

\* the conversion applied to the terminal marker's path as well
parseConfigConvertAll(n) ==
    [path |-> convertJSPathToXPath(n.jsPathWithKeys),
     pathWithoutKeys |-> convertJSPathToXPath(n.jsPath), json |-> n.json]

parseConfig(n) ==
    IF n.jsPathWithKeys = CommitEndKeyPath
    THEN [path |-> n.jsPathWithKeys, pathWithoutKeys |-> n.jsPath, json |-> n.json]
    ELSE [path |-> convertJSPathToXPath(n.jsPathWithKeys),
          pathWithoutKeys |-> convertJSPathToXPath(n.jsPath), json |-> n.json]

resetConfigKeeps(old) == old

\* `a.Notifications.FullConfig = nil`, the first statement of getConfigWithGNMI
resetConfig(old) == NoConfig

\* Notifications.FullConfig after getConfigWithGNMI for the marker `id`, by what
\* the Get returned: a snapshot, or a response without update
getConfigWithGNMI(old, id, res) ==
    IF res = "ok" THEN [set |-> TRUE, at |-> id] ELSE resetConfig(old)

createRetriesOnErrorOnly(resp) == resp.err

\* createNotificationStream: the response makes the loop wait and retry
createRetries(resp) == resp.err \/ resp.status # "success"

----------------------------------------------------------------------------
(* Receiver task: receiveConfigNotifications / ReceiveRouteNotifications   *)

StreamInit ==
    /\ topic \in {"config", "route"}
    /\ streamConfig \in (IF topic = "config" THEN BOOLEAN ELSE {FALSE})
    /\ cancelled = FALSE
    /\ exited = FALSE
    /\ rxPc = "create"
    /\ streamID = 0
    /\ issued = {}
    /\ subCalls = 0
    /\ errCount = 0
    /\ pumpPc = "idle"
    /\ client = 0
    /\ failedClient = 0
    /\ recvCount = 0
    /\ held = NoEnvelope
    /\ chanClosed = FALSE
    /\ cur = NoEnvelope
    /\ idx = 0
    /\ curNotif = NilNotif
    /\ fetchLog = <<>>
    /\ fullConfig = NoConfig
    /\ delivered = <<>>
    /\ lastItem = NoItem
    /\ outClosed = FALSE
    /\ nzHandled = 0
    /\ zHandled = 0
    /\ plHandled = 0
    /\ outQ = <<>>
    /\ subResult = "none"
    /\ handleUsed = {}
    /\ lastFetch = "none"
    /\ appReads = FALSE
    /\ reading = NoRead
    /\ readGot = NoReadGot

StreamIdle ==
    /\ topic = "config"
    /\ streamConfig = FALSE
    /\ cancelled = FALSE
    /\ exited = FALSE
    /\ rxPc = "create"
    /\ streamID = 0
    /\ issued = {}
    /\ subCalls = 0
    /\ errCount = 0
    /\ pumpPc = "idle"
    /\ client = 0
    /\ failedClient = 0
    /\ recvCount = 0
    /\ held = NoEnvelope
    /\ chanClosed = FALSE
    /\ cur = NoEnvelope
    /\ idx = 0
    /\ curNotif = NilNotif
    /\ fetchLog = <<>>
    /\ fullConfig = NoConfig
    /\ delivered = <<>>
    /\ lastItem = NoItem
    /\ outClosed = FALSE
    /\ nzHandled = 0
    /\ zHandled = 0
    /\ plHandled = 0
    /\ outQ = <<>>
    /\ subResult = "none"
    /\ handleUsed = {}
    /\ lastFetch = "none"
    /\ appReads = FALSE
    /\ reading = NoRead
    /\ readGot = NoReadGot

\* the config topic in aggregate mode, with an application that reads
\* Notifications.FullConfig each time it has received from FullConfigReceived
ReadInit ==
    /\ topic = "config"
    /\ streamConfig = FALSE
    /\ cancelled = FALSE
    /\ exited = FALSE
    /\ rxPc = "create"
    /\ streamID = 0
    /\ issued = {}
    /\ subCalls = 0
    /\ errCount = 0
    /\ pumpPc = "idle"
    /\ client = 0
    /\ failedClient = 0
    /\ recvCount = 0
    /\ held = NoEnvelope
    /\ chanClosed = FALSE
    /\ cur = NoEnvelope
    /\ idx = 0
    /\ curNotif = NilNotif
    /\ fetchLog = <<>>
    /\ fullConfig = NoConfig
    /\ delivered = <<>>
    /\ lastItem = NoItem
    /\ outClosed = FALSE
    /\ nzHandled = 0
    /\ zHandled = 0
    /\ plHandled = 0
    /\ outQ = <<>>
    /\ subResult = "none"
    /\ handleUsed = {}
    /\ lastFetch = "none"
    /\ appReads = TRUE
    /\ reading = NoRead
    /\ readGot = NoReadGot

\* one NotificationRegister(Create) call of createNotificationStream and the
\* branch on its response; a call on a cancelled context fails
RxCreateStream ==
    /\ ~exited
    /\ rxPc = "create"
    /\ \E resp \in CreateResponses :
        /\ cancelled => resp.err
        /\ (resp.err \/ resp.status # "success") => (cancelled \/ errCount < MaxErr)
        /\ errCount' = IF (resp.err \/ resp.status # "success") /\ ~cancelled
                       THEN errCount + 1 ELSE errCount
        /\ issued' = IF ~resp.err /\ resp.status = "success"
                     THEN issued \cup {resp.streamId} ELSE issued
        /\ IF createRetries(resp)
           THEN /\ rxPc' = "create_wait"
                /\ UNCHANGED streamID
           ELSE /\ rxPc' = "add_sub"
                /\ streamID' = resp.streamId
    /\ UNCHANGED <<topic, streamConfig, cancelled, exited, subCalls, pumpPc, client,
                   failedClient, recvCount, held, chanClosed, cur, idx, curNotif, fetchLog,
                   fullConfig, delivered, lastItem, outClosed, nzHandled, zHandled, plHandled, outQ, subResult, handleUsed, lastFetch, appReads, reading, readGot>>
    /\ UNCHANGED <<stateVars, pathVars, optVars, kaVars, lifeVars, opVars>>

\* <-retry.C in createNotificationStream
RxCreateRetry ==
    /\ ~exited
    /\ rxPc = "create_wait"
    /\ rxPc' = "create"
    /\ UNCHANGED <<topic, streamConfig, cancelled, exited, streamID, issued, subCalls,
                   errCount, pumpPc, client, failedClient, recvCount, held, chanClosed,
                   cur, idx, curNotif, fetchLog, fullConfig, delivered, lastItem, outClosed, nzHandled, zHandled, plHandled, outQ, subResult, handleUsed, lastFetch, appReads, reading, readGot>>
    /\ UNCHANGED <<stateVars, pathVars, optVars, kaVars, lifeVars, opVars>>

\* a request carrying a stream handle; `first` tells whether it is the first
\* request of its kind
Request(rpc, id) ==
    [rpc |-> rpc, streamId |-> id, first |-> \A u \in handleUsed : u.rpc # rpc]

\* `StreamId: streamID` in the AddSubscription request
subHandle(id) == id

subRetriesOnFailure(ok) == ~ok

\* startRouteNotificationStream calls addRouteSubscription once and goes on:
\* the function returns nothing and its failure branch only logs
subRetries(ok) == FALSE

\* addConfigSubscription / addRouteSubscription (one call, result only logged),
\* then make(chan) and `go a.startNotificationStream`
RxAddSubscription ==
    /\ ~exited
    /\ rxPc = "add_sub"
    /\ subCalls < MaxSub
    /\ \E ok \in BOOLEAN :
        /\ cancelled => ~ok
        /\ subCalls' = subCalls + 1
        /\ subResult' = IF ok THEN "ok" ELSE "failed"
        /\ handleUsed' = handleUsed \cup {Request("AddSubscription", subHandle(streamID))}
        /\ IF subRetries(ok)
           THEN UNCHANGED <<pumpPc, rxPc>>
           ELSE /\ pumpPc' = "get_client"
                /\ rxPc' = "range"
    /\ UNCHANGED <<topic, streamConfig, cancelled, exited, streamID, issued, errCount,
                   client, failedClient, recvCount, held, chanClosed, cur, idx, curNotif,
                   fetchLog, fullConfig, delivered, lastItem, outClosed, nzHandled, zHandled, plHandled, outQ,
                   lastFetch, appReads, reading, readGot>>
    /\ UNCHANGED <<stateVars, pathVars, optVars, kaVars, lifeVars, opVars>>

----------------------------------------------------------------------------
(* NotificationPump: startNotificationStream, getNotificationStreamClient  *)

\* where the pump goes when Recv returned EOF or an error and the retry
\* ticker fired: `continue` re-enters the loop at streamClient.Recv()
afterRetry == "recv"

pumpExitsOnFailure(isCancelled, recvFailed) == isCancelled \/ recvFailed

\* the pump leaves the loop (and closes streamChan) only in the ctx.Done() case
pumpExits(isCancelled, recvFailed) == isCancelled

clientHandleUnset(id) == 0

\* `&ndk.NotificationStreamRequest{StreamId: streamID}`, the same in every
\* iteration of getNotificationStreamClient's loop
clientHandle(id) == id

\* one NotificationStream call of getNotificationStreamClient
PumpGetClient ==
    /\ ~exited
    /\ pumpPc = "get_client"
    /\ handleUsed' = handleUsed \cup {Request("NotificationStream", clientHandle(streamID))}
    /\ \E ok \in BOOLEAN :
        /\ ~ok => (cancelled \/ errCount < MaxErr)
        /\ errCount' = IF ~ok /\ ~cancelled THEN errCount + 1 ELSE errCount
        /\ IF ok
           THEN /\ client' = client + 1
                /\ pumpPc' = "recv"
           ELSE /\ pumpPc' = "client_wait"
                /\ UNCHANGED client
    /\ UNCHANGED <<topic, streamConfig, cancelled, exited, rxPc, streamID, issued,
                   subCalls, failedClient, recvCount, held, chanClosed, cur, idx, curNotif,
                   fetchLog, fullConfig, delivered, lastItem, outClosed, nzHandled, zHandled, plHandled, outQ, subResult,
                   lastFetch, appReads, reading, readGot>>
    /\ UNCHANGED <<stateVars, pathVars, optVars, kaVars, lifeVars, opVars>>

\* time.Sleep and <-retry.C in getNotificationStreamClient
PumpClientRetry ==
    /\ ~exited
    /\ pumpPc = "client_wait"
    /\ pumpPc' = "get_client"
    /\ UNCHANGED <<topic, streamConfig, cancelled, exited, rxPc, streamID, issued,
                   subCalls, errCount, client, failedClient, recvCount, held,
                   chanClosed, cur, idx, curNotif, fetchLog, fullConfig, delivered, lastItem, outClosed,
                   nzHandled, zHandled, plHandled, outQ, subResult, handleUsed, lastFetch, appReads, reading, readGot>>
    /\ UNCHANGED <<stateVars, pathVars, optVars, kaVars, lifeVars, opVars>>

\* streamClient.Recv() returns and the select on ctx.Done() is taken.  Recv
\* blocks until the daemon sends an envelope, the stream ends or fails, or the
\* context is cancelled.
PumpRecv ==
    /\ ~exited
    /\ pumpPc = "recv"
    /\ \/ /\ pumpExits(cancelled, FALSE)
          /\ pumpPc' = "done"
          /\ chanClosed' = TRUE
          /\ UNCHANGED <<recvCount, held, failedClient, errCount>>
       \/ /\ ~cancelled
          /\ recvCount < MaxRecv
          /\ \E len \in 0..MaxNotifs :
                held' = [eid |-> recvCount + 1, len |-> len]
          /\ recvCount' = recvCount + 1
          /\ pumpPc' = "send"
          /\ UNCHANGED <<chanClosed, failedClient, errCount>>
       \/ /\ ~cancelled
          /\ errCount < MaxErr
          /\ \E e \in {"EOF", "error"} :
                IF pumpExits(cancelled, TRUE)
                THEN /\ pumpPc' = "done"
                     /\ chanClosed' = TRUE
                     /\ UNCHANGED failedClient
                ELSE /\ pumpPc' = "retry_wait"
                     /\ failedClient' = client
                     /\ UNCHANGED chanClosed
          /\ errCount' = errCount + 1
          /\ UNCHANGED <<recvCount, held>>
    /\ UNCHANGED <<topic, streamConfig, cancelled, exited, rxPc, streamID, issued,
                   subCalls, client, cur, idx, curNotif, fetchLog, fullConfig, delivered, lastItem,
                   outClosed, nzHandled, zHandled, plHandled, outQ, subResult, handleUsed, lastFetch, appReads, reading, readGot>>
    /\ UNCHANGED <<stateVars, pathVars, optVars, kaVars, lifeVars, opVars>>

\* <-retry.C after EOF or a receive error, then `continue`
PumpRetry ==
    /\ ~exited
    /\ pumpPc = "retry_wait"
    /\ pumpPc' = afterRetry
    /\ UNCHANGED <<topic, streamConfig, cancelled, exited, rxPc, streamID, issued,
                   subCalls, errCount, client, failedClient, recvCount, held,
                   chanClosed, cur, idx, curNotif, fetchLog, fullConfig, delivered, lastItem, outClosed,
                   nzHandled, zHandled, plHandled, outQ, subResult, handleUsed, lastFetch, appReads, reading, readGot>>
    /\ UNCHANGED <<stateVars, pathVars, optVars, kaVars, lifeVars, opVars>>

chanReadyAlways(pc) == TRUE

\* streamChan is made without capacity: a send on it completes only while the
\* receiver is at its `range` over the channel
chanReady(pc) == pc = "range"

\* `streamChan <- streamResp` meets `range configStream`: the channel is
\* unbuffered, the send completes when the receiver takes the envelope.  The
\* receiver marshals the envelope for logging and skips it when that fails.
Handover ==
    /\ ~exited
    /\ pumpPc = "send"
    /\ chanReady(rxPc)
    /\ pumpPc' = "recv"
    /\ held' = NoEnvelope
    /\ \E marshalOk \in BOOLEAN :
          IF marshalOk /\ held.len > 0
          THEN /\ rxPc' = "handle"
               /\ cur' = held
               /\ idx' = 1
          ELSE UNCHANGED <<rxPc, cur, idx>>
    /\ UNCHANGED curNotif
    /\ UNCHANGED <<topic, streamConfig, cancelled, exited, streamID, issued, subCalls,
                   errCount, client, failedClient, recvCount, chanClosed, fetchLog,
                   fullConfig, delivered, lastItem, outClosed, nzHandled, zHandled, plHandled, outQ, subResult, handleUsed, lastFetch, appReads, reading, readGot>>
    /\ UNCHANGED <<stateVars, pathVars, optVars, kaVars, lifeVars, opVars>>

rangeEndsAnytime(closed) == TRUE

\* `for resp := range stream` leaves the loop only when streamChan is closed
rangeEnds(closed) == closed

\* `range` over the closed streamChan ends; ReceiveRouteNotifications then
\* runs its deferred close of the application's Route channel
RxChanClosed ==
    /\ ~exited
    /\ rxPc = "range"
    /\ rangeEnds(chanClosed)
    /\ rxPc' = "done"
    /\ outClosed' = (topic = "route")
    /\ UNCHANGED <<topic, streamConfig, cancelled, exited, streamID, issued, subCalls,
                   errCount, pumpPc, client, failedClient, recvCount, held, chanClosed,
                   cur, idx, curNotif, fetchLog, fullConfig, delivered, lastItem, nzHandled, zHandled, plHandled, outQ, subResult, handleUsed, lastFetch, appReads, reading, readGot>>
    /\ UNCHANGED <<stateVars, pathVars, optVars, kaVars, lifeVars, opVars>>

----------------------------------------------------------------------------
(* handleConfigNotifications and the notification loop of the topic        *)
(* receivers                                                               *)

CurId == <<cur.eid, idx>>

\* the marker's commit_seq does not parse to 0 (a value other than 0, or JSON
\* that does not parse)
NonZeroMarker(n) ==
    n.payload /\ n.jsPath = CommitEndKeyPath /\ ~(n.json.valid /\ n.json.seq = 0)

ZeroMarker(n) ==
    n.payload /\ n.jsPath = CommitEndKeyPath /\ n.json.valid /\ n.json.seq = 0

RxRepeat ==
    /\ rxPc' = "handle"
    /\ curNotif' = NilNotif
    /\ UNCHANGED <<cur, idx>>

\* the loop over the envelope moves to the next notification, or the receiver
\* returns to `range` after the last one
RxAdvance ==
    /\ curNotif' = NilNotif
    /\ IF idx < cur.len
       THEN /\ idx' = idx + 1
            /\ rxPc' = "handle"
            /\ UNCHANGED cur
       ELSE /\ idx' = 0
            /\ rxPc' = "range"
            /\ cur' = NoEnvelope

\* the channel a blocked receiver is sending on
sendKind(pc) ==
    CASE pc = "send_signal" -> "signal"
      [] pc = "send_cfg" -> "config"
      [] OTHER -> "route"

\* what the send at `pc` puts on its channel for the notification n
Item(n, pc) ==
    [id |-> CurId, what |-> sendKind(pc), zero |-> ZeroMarker(n), json |-> n.json,
     cfg |-> IF pc = "send_cfg" THEN parseConfig(n) ELSE NoCfgNotif]

chanCapBuffered == MaxRecv * MaxNotifs

\* capacity of the channels of Notifications: each is made by make(chan T)
chanCap == 0

\* `ch <- v` at `pc`: the value goes into the channel's buffer when it has a
\* free place, else the sender waits at the send for the reader
Write(n, pc) ==
    IF Len(outQ) < chanCap
    THEN /\ outQ' = Append(outQ, Item(n, pc))
         /\ RxAdvance
    ELSE /\ rxPc' = pc
         /\ curNotif' = n
         /\ UNCHANGED <<cur, idx, outQ>>

RxSkipBreaks ==
    /\ curNotif' = NilNotif
    /\ idx' = 0
    /\ rxPc' = "range"
    /\ cur' = NoEnvelope

\* the typed payload is nil: the notification is logged and `continue` goes to
\* the next notification of the envelope
RxSkip == RxAdvance

\* one iteration of `for _, n := range notifs` up to the channel send, if any
RxHandle ==
    /\ ~exited
    /\ rxPc = "handle"
    /\ \E n \in NotifsOf(topic) :
        /\ nzHandled' = IF topic = "config" /\ NonZeroMarker(n)
                        THEN nzHandled + 1 ELSE nzHandled
        /\ zHandled' = IF topic = "config" /\ ZeroMarker(n)
                       THEN zHandled + 1 ELSE zHandled
        /\ plHandled' = IF n.payload THEN plHandled + 1 ELSE plHandled
        /\ IF ~n.payload
           THEN /\ RxSkip
                /\ UNCHANGED <<fetchLog, fullConfig, lastFetch, exited, outQ>>
           ELSE IF topic = "route"
           THEN /\ Write(n, "send_route")
                /\ UNCHANGED <<fetchLog, fullConfig, lastFetch, exited>>
           ELSE IF streamConfig
           THEN /\ Write(n, "send_cfg")
                /\ UNCHANGED <<fetchLog, fullConfig, lastFetch, exited>>
           ELSE IF commitEndReceived(n)
           THEN \E res \in {"ok", "empty", "error"} :
                /\ fetchLog' = Append(fetchLog, [id |-> CurId, zero |-> ZeroMarker(n)])
                /\ lastFetch' = res
                /\ IF res = "error"
                   THEN \* GetWithGNMI: logger.Fatal terminates the process
                        /\ exited' = TRUE
                        /\ fullConfig' = resetConfig(fullConfig)
                        /\ curNotif' = n
                        /\ UNCHANGED <<rxPc, cur, idx, outQ>>
                   ELSE /\ fullConfig' = getConfigWithGNMI(fullConfig, CurId, res)
                        /\ Write(n, "send_signal")
                        /\ UNCHANGED exited
           ELSE /\ RxAdvance
                /\ UNCHANGED <<fetchLog, fullConfig, lastFetch, exited, outQ>>
    /\ UNCHANGED <<topic, streamConfig, cancelled, streamID, issued, subCalls,
                   errCount, pumpPc, client, failedClient, recvCount, held, chanClosed,
                   delivered, lastItem, outClosed, subResult, handleUsed, appReads, reading, readGot>>
    /\ UNCHANGED <<stateVars, pathVars, optVars, kaVars, lifeVars, opVars>>

\* the application receives from FullConfigReceived, Config or Route: the
\* receiver's blocked send completes and its loop goes on
AppTake ==
    /\ ~exited
    /\ reading = NoRead
    /\ outQ # <<>> \/ rxPc \in {"send_signal", "send_cfg", "send_route"}
    /\ LET waiting == rxPc \in {"send_signal", "send_cfg", "send_route"}
           first == IF outQ # <<>> THEN Head(outQ) ELSE Item(curNotif, rxPc)
       IN /\ delivered' = Append(delivered, [id |-> first.id, what |-> first.what,
                                             zero |-> first.zero])
          /\ lastItem' = [what |-> first.what, json |-> first.json, cfg |-> first.cfg]
          /\ reading' = IF appReads /\ first.what = "signal"
                        THEN [id |-> first.id, cfg |-> fullConfig] ELSE NoRead
          /\ IF waiting
             THEN \* the waiting sender's value is taken, or moves into the freed place
                  /\ outQ' = IF outQ # <<>>
                             THEN Append(Tail(outQ), Item(curNotif, rxPc)) ELSE outQ
                  /\ RxAdvance
             ELSE /\ outQ' = Tail(outQ)
                  /\ UNCHANGED <<rxPc, cur, idx, curNotif>>
    /\ UNCHANGED <<topic, streamConfig, cancelled, exited, streamID, issued, subCalls,
                   errCount, pumpPc, client, failedClient, recvCount, held, chanClosed,
                   fetchLog, fullConfig, outClosed, nzHandled, zHandled, plHandled, subResult, handleUsed,
                   lastFetch, appReads, readGot>>
    /\ UNCHANGED <<stateVars, pathVars, optVars, kaVars, lifeVars, opVars>>

\* getConfigWithGNMI has run again since the application received its signal
FetchedSince == fetchLog # <<>> /\ fetchLog[Len(fetchLog)].id # reading.id

\* what a read of Notifications.FullConfig can return: the field is written by
\* the receiver task without a lock, so a read after a later fetch sees what
\* that fetch stored, or the nil of its reset when the read falls between the
\* reset and the store
Readable == {fullConfig} \cup (IF FetchedSince THEN {NoConfig} ELSE {})

\* the application, having received from FullConfigReceived, reads
\* Notifications.FullConfig
AppRead ==
    /\ ~exited
    /\ reading # NoRead
    /\ \E got \in Readable :
          readGot' = [for |-> reading.id, want |-> reading.cfg, got |-> got]
    /\ reading' = NoRead
    /\ UNCHANGED <<topic, streamConfig, cancelled, exited, rxPc, streamID, issued, subCalls,
                   errCount, pumpPc, client, failedClient, recvCount, held, chanClosed,
                   cur, idx, curNotif, fetchLog, fullConfig, delivered, lastItem, outClosed,
                   nzHandled, zHandled, plHandled, outQ, subResult, handleUsed, lastFetch, appReads>>
    /\ UNCHANGED <<stateVars, pathVars, optVars, kaVars, lifeVars, opVars>>

\* the agent context is cancelled (stop(), or the owner of the context)
Cancel ==
    /\ ~exited
    /\ ~cancelled
    /\ cancelled' = TRUE
    /\ UNCHANGED <<topic, streamConfig, exited, rxPc, streamID, issued, subCalls,
                   errCount, pumpPc, client, failedClient, recvCount, held, chanClosed,
                   cur, idx, curNotif, fetchLog, fullConfig, delivered, lastItem, outClosed, nzHandled, zHandled, plHandled, outQ, subResult, handleUsed, lastFetch, appReads, reading, readGot>>
    /\ UNCHANGED <<stateVars, pathVars, optVars, kaVars, lifeVars, opVars>>

----------------------------------------------------------------------------
(* Tracked Path Set: state.go UpdateState / DeleteState                    *)

\* what an RPC to the daemon comes back with: success, an error (err != nil),
\* or a response whose status is not kSdkMgrSuccess
Outcomes == {"ok", "err", "status"}

rpcFailedOnErrOnly(o) == o = "err"

\* `err != nil || resp.GetStatus() != ndk.SdkMgrStatus_kSdkMgrSuccess`
rpcFailed(o) == o # "ok"

RootPath == <<"/", "g">>
ListEntryPath == <<"/", "g", "/", "l", "[", "n", "=", "e", "]">>
ChildPath == <<"/", "g", "/", "m">>
OtherPath == <<"/", "h">>

\* the path arguments the application passes ("" included)
StatePaths == {<<>>, RootPath, ListEntryPath, ChildPath, OtherPath}

NoCall == [op |-> "none", path |-> <<>>, before |-> {}, err |-> "nil", rpc |-> <<>>]

\* strings.ReplaceAll(s, old, new) for one-character old and new
RECURSIVE ReplaceAll(_, _, _)
ReplaceAll(str, old, new) ==
    IF str = <<>> THEN <<>>
    ELSE <<IF Head(str) = old THEN new ELSE Head(str)>> \o ReplaceAll(Tail(str), old, new)

\* the JsPath of the telemetry key that UpdateState / DeleteState build
stateJsPath(path) ==
    IF path = <<>> THEN ReplaceAll(appRootPath, "/", ".") ELSE convertXPathToJSPath(path)

pathAddedOrDefault(ps, path) == path \in ps \/ path = <<>>

\* `_, ok := a.paths[path]`
pathAdded(ps, path) == path \in ps

\* p is path or lies below it
RECURSIVE IsPrefix(_, _)
IsPrefix(a, b) ==
    IF a = <<>> THEN TRUE
    ELSE IF b = <<>> THEN FALSE
    ELSE Head(a) = Head(b) /\ IsPrefix(Tail(a), Tail(b))

EqualsOrBelow(path, q) ==
    /\ IsPrefix(path, q)
    /\ (Len(q) > Len(path) => q[Len(path) + 1] \in {"/", "["})

untrackSubtree(ps, path) == {q \in ps : ~EqualsOrBelow(path, q)}

\* `delete(a.paths, path)`
untrack(ps, path) == ps \ {path}

updatedPathsBeforeRpc(ps, path, failed) == ps \cup {path}

\* UpdateState: `a.paths[path] = struct{}{}` comes after the return on a
\* failed TelemetryAddOrUpdate
updatedPaths(ps, path, failed) == IF failed THEN ps ELSE ps \cup {path}

\* DeleteState: `delete(a.paths, path)` comes after the return on a failed
\* TelemetryDelete
deletedPaths(ps, path, failed) == IF failed THEN ps ELSE untrack(ps, path)

pathKeyDefaultsRoot(path, root) == IF path = <<>> THEN root ELSE path

\* the key of a.paths that UpdateState and DeleteState use: the path argument
\* as given (the root path is substituted for "" in jsPath only)
pathKey(path, root) == path

StateInit ==
    /\ \E withRoot \in BOOLEAN :
          \* NewAgent, with or without the option WithAppRootPath(RootPath)
          /\ appRootPath = IF withRoot THEN RootPath ELSE <<>>
          /\ paths = IF withRoot THEN {RootPath} ELSE {}
          /\ rootFresh = withRoot
    /\ stLast = NoCall
    /\ lastUpdated = {}

StateIdle ==
    /\ appRootPath = <<>>
    /\ paths = {}
    /\ stLast = NoCall
    /\ lastUpdated = {}
    /\ rootFresh = FALSE

DeleteState ==
    \E path \in StatePaths, o \in Outcomes :
        /\ IF ~pathAdded(paths, pathKey(path, appRootPath))
           THEN /\ stLast' = [op |-> "delete", path |-> path, before |-> paths,
                              err |-> "ErrStateDeleteFailed", rpc |-> <<>>]
                /\ UNCHANGED <<paths, lastUpdated, rootFresh>>
           ELSE /\ stLast' = [op |-> "delete", path |-> path, before |-> paths,
                              err |-> IF rpcFailed(o) THEN "ErrStateDeleteFailed" ELSE "nil",
                              rpc |-> <<[call |-> "TelemetryDelete",
                                         jsPath |-> stateJsPath(path), outcome |-> o]>>]
                /\ paths' = deletedPaths(paths, pathKey(path, appRootPath), rpcFailed(o))
                /\ lastUpdated' = IF o = "ok" THEN lastUpdated \ {path} ELSE lastUpdated
                /\ rootFresh' = (rootFresh /\ ~(o = "ok" /\ path = appRootPath))
        /\ UNCHANGED appRootPath
        /\ UNCHANGED <<streamVars, pathVars, optVars, kaVars, lifeVars, opVars>>

UpdateState ==
    \E path \in StatePaths, o \in Outcomes :
        /\ stLast' = [op |-> "update", path |-> path, before |-> paths,
                      err |-> IF rpcFailed(o) THEN "ErrStateAddOrUpdateFailed" ELSE "nil",
                      rpc |-> <<[call |-> "TelemetryAddOrUpdate",
                                 jsPath |-> stateJsPath(path), outcome |-> o]>>]
        /\ paths' = updatedPaths(paths, pathKey(path, appRootPath), rpcFailed(o))
        /\ lastUpdated' = IF o = "ok" THEN lastUpdated \cup {path} ELSE lastUpdated
        /\ rootFresh' = (rootFresh /\ ~(o = "ok" /\ path = appRootPath))
        /\ UNCHANGED appRootPath
        /\ UNCHANGED <<streamVars, pathVars, optVars, kaVars, lifeVars, opVars>>

\* the orders in which `for path := range a.paths` may visit the keys ps
RECURSIVE Orders(_)
Orders(ps) ==
    IF ps = {} THEN {<<>>}
    ELSE UNION {{<<p>> \o rest : rest \in Orders(ps \ {p})} : p \in ps}

deleteAllStopsNever(failed) == FALSE

\* `if err != nil { return err }` in the loop of DeleteAllState
deleteAllStops(failed) == failed

\* the loop of DeleteAllState over the paths still to visit: DeleteState for
\* each (its lookup, its TelemetryDelete with outcome oks[path], its
\* delete(a.paths, path)), up to the first error or the end of the map
RECURSIVE DeleteAllFrom(_, _, _, _)
DeleteAllFrom(ps, order, oks, rpc) ==
    IF order = <<>>
    THEN [paths |-> {}, err |-> "nil", rpc |-> rpc]
    ELSE LET path == Head(order)
             call == [call |-> "TelemetryDelete", jsPath |-> stateJsPath(path),
                      path |-> path, ok |-> oks[path]]
         IN IF ~pathAdded(ps, path)
            THEN IF deleteAllStops(TRUE)
                 THEN [paths |-> ps, err |-> "ErrStateDeleteFailed", rpc |-> rpc]
                 ELSE DeleteAllFrom(ps, Tail(order), oks, rpc)
            ELSE IF ~oks[path]
            THEN IF deleteAllStops(TRUE)
                 THEN [paths |-> ps, err |-> "ErrStateDeleteFailed", rpc |-> Append(rpc, call)]
                 ELSE DeleteAllFrom(ps, Tail(order), oks, Append(rpc, call))
            ELSE DeleteAllFrom(untrack(ps, path), Tail(order), oks, Append(rpc, call))

\* the paths whose DeleteState call inside DeleteAllState succeeded
OkDeleted(rpc) == {rpc[i].path : i \in {j \in 1..Len(rpc) : rpc[j].ok}}

DeleteAllState ==
    \E order \in Orders(paths), oks \in [paths -> BOOLEAN] :
        LET run == DeleteAllFrom(paths, order, oks, <<>>)
        IN /\ paths' = run.paths
           /\ stLast' = [op |-> "deleteAll", path |-> <<>>, before |-> paths,
                         err |-> run.err, rpc |-> run.rpc]
           /\ lastUpdated' = lastUpdated \ OkDeleted(run.rpc)
           /\ rootFresh' = (rootFresh /\ appRootPath \notin OkDeleted(run.rpc))
           /\ UNCHANGED appRootPath
           /\ UNCHANGED <<streamVars, pathVars, optVars, kaVars, lifeVars, opVars>>

----------------------------------------------------------------------------
(* Path translation runs                                                   *)

SegNames == {<<"a">>, <<"a", "-", "b">>}
KeyNames == {<<"k">>}
KeyValues == {<<"e", "-", "1", "/", "1">>, <<"x", "_", "y">>, <<"1", ".", "2">>}

Predicates == {<<"[">> \o k \o <<"=">> \o v \o <<"]">> : k \in KeyNames, v \in KeyValues}

RECURSIVE PredicateSeqs(_)
PredicateSeqs(n) ==
    IF n = 0 THEN {<<>>}
    ELSE PredicateSeqs(n - 1) \cup {ps \o q : ps \in PredicateSeqs(n - 1), q \in Predicates}

SegmentsOf(names) == {<<"/">> \o nm \o ps : nm \in names, ps \in PredicateSeqs(MaxPreds)}

RECURSIVE XPathsOf(_, _)
XPathsOf(names, n) ==
    IF n = 0 THEN {<<>>}
    ELSE XPathsOf(names, n - 1)
            \cup {xp \o sg : xp \in XPathsOf(names, n - 1), sg \in SegmentsOf(names)}

\* hierarchical paths: "", and "/" name predicates ... ; no key value holds "[", "]" or "="
XPaths == XPathsOf(SegNames, MaxSegs)

\* those whose segment names are written with hyphens only
HyphenXPaths == XPathsOf({nm \in SegNames : \A i \in 1..Len(nm) : nm[i] # "_"}, MaxSegs)

\* internal paths as the daemon sends them in Key.JsPath / Key.JsPathWithKeys:
\* "." name {.key=="value"} ..., and the one-character paths "." and "a"
JsSegNames == {<<"a">>, <<"a", "_", "b">>}
JsPredicates == {<<"{", ".">> \o k \o <<"=", "=", "\"">> \o v \o <<"\"", "}">> :
                    k \in KeyNames, v \in KeyValues}
JsSegments == {<<".">> \o nm : nm \in JsSegNames}
                 \cup {<<".">> \o nm \o q : nm \in JsSegNames, q \in JsPredicates}

RECURSIVE JSPathsOf(_)
JSPathsOf(n) ==
    IF n = 0 THEN {<<>>}
    ELSE JSPathsOf(n - 1) \cup {jp \o sg : jp \in JSPathsOf(n - 1), sg \in JsSegments}

JSPaths == JSPathsOf(MaxSegs) \cup {<<".">>, <<"a">>}

\* a run translates a hierarchical path to the internal notation and back
\* ("in", "js", "back"), or translates an internal path ("direct", "out")
PathInit ==
    /\ \/ /\ pIn \in XPaths
          /\ pJs = <<>>
          /\ pPc = "in"
       \/ /\ pIn = <<>>
          /\ pJs \in JSPaths
          /\ pPc = "direct"
    /\ pBack = <<>>

PathIdle ==
    /\ pIn = <<>>
    /\ pJs = <<>>
    /\ pBack = <<>>
    /\ pPc = "in"

ToInternal ==
    /\ pPc = "in"
    /\ pJs' = convertXPathToJSPath(pIn)
    /\ pPc' = "js"
    /\ UNCHANGED <<pIn, pBack>>
    /\ UNCHANGED <<streamVars, stateVars, optVars, kaVars, lifeVars, opVars>>

ToExternal ==
    /\ pPc \in {"js", "direct"}
    /\ pBack' = convertJSPathToXPath(pJs)
    /\ pPc' = (IF pPc = "js" THEN "back" ELSE "out")
    /\ UNCHANGED <<pIn, pJs>>
    /\ UNCHANGED <<streamVars, stateVars, optVars, kaVars, lifeVars, opVars>>

----------------------------------------------------------------------------
(* Agent construction: NewAgent, the options and validateOptions           *)

\* the options of a call: WithContext(ctx, cancel), WithContext(nil, nil),
\* WithStreamConfig(), WithKeepAlive(interval, threshold) with values that
\* are not both zero, WithKeepAlive(0, 0), WithConfigAcknowledge(),
\* WithAutoUpdateConfigState()
OptionKinds == {"ctx", "ctx_nil", "stream", "keepalive", "keepalive_zero", "ack", "auto"}

RECURSIVE OptionSeqs(_)
OptionSeqs(n) ==
    IF n = 0 THEN {<<>>}
    ELSE OptionSeqs(n - 1) \cup {os \o <<o>> : os \in OptionSeqs(n - 1), o \in OptionKinds}

\* a := &Agent{...}: the fields the options write
NewAgentFields ==
    [ctx |-> FALSE, streamConfig |-> FALSE, keepAliveConfig |-> FALSE,
     configAck |-> FALSE, autoCfgState |-> FALSE]

\* opt(a): the agent after the call and the error it returned ("nil": none)
ApplyOpt(o, a) ==
    CASE o = "ctx" -> [agent |-> [a EXCEPT !.ctx = TRUE], err |-> "nil"]
      [] o = "ctx_nil" -> [agent |-> a, err |-> "ErrContextNil"]
      [] o = "stream" -> [agent |-> [a EXCEPT !.streamConfig = TRUE], err |-> "nil"]
      [] o = "keepalive" -> [agent |-> [a EXCEPT !.keepAliveConfig = TRUE], err |-> "nil"]
      [] o = "keepalive_zero" -> [agent |-> a, err |-> "ErrKeepAliveZero"]
      [] o = "ack" -> [agent |-> [a EXCEPT !.configAck = TRUE], err |-> "nil"]
      [] o = "auto" -> [agent |-> [a EXCEPT !.autoCfgState = TRUE], err |-> "nil"]

validateOptionsAckOnly(a) ==
    IF a.configAck /\ ~a.streamConfig THEN <<"ErrAckCfgAndNotStreamCfg">> ELSE <<>>

validateOptions(a) ==
    IF a.configAck /\ ~a.streamConfig THEN <<"ErrAckCfgAndNotStreamCfg">>
    ELSE IF a.configAck /\ a.autoCfgState THEN <<"ErrAckCfgAndAutoCfgState">>
    ELSE <<>>

\* the option loop stops at the first error
nextOptFailFast(i, err) == IF err = "nil" THEN i + 1 ELSE Len(opts) + 1

\* `for _, opt := range opts`: the index after option i, whatever it returned
nextOpt(i, err) == i + 1

OptInit ==
    /\ opts \in OptionSeqs(MaxOpts)
    /\ optIdx = 1
    /\ agent = NewAgentFields
    /\ errs = <<>>
    /\ applied = <<>>
    /\ naPc = "options"
    /\ ret = "none"

OptIdle ==
    /\ opts = <<>>
    /\ optIdx = 1
    /\ agent = NewAgentFields
    /\ errs = <<>>
    /\ applied = <<>>
    /\ naPc = "idle"
    /\ ret = "none"

\* one iteration of the option loop
ApplyOption ==
    /\ naPc = "options"
    /\ optIdx <= Len(opts)
    /\ LET r == ApplyOpt(opts[optIdx], agent) IN
        /\ agent' = r.agent
        /\ errs' = (IF r.err # "nil" THEN Append(errs, r.err) ELSE errs)
        /\ optIdx' = nextOpt(optIdx, r.err)
    /\ applied' = Append(applied, optIdx)
    /\ UNCHANGED <<opts, naPc, ret>>
    /\ UNCHANGED <<streamVars, stateVars, pathVars, kaVars, lifeVars, opVars>>

\* after the loop: validateOptions, then nil and the errors, or the agent.
\* metadata.AppendToOutgoingContext on the nil context of an agent built
\* without WithContext panics.
ValidateAndReturn ==
    /\ naPc = "options"
    /\ optIdx > Len(opts)
    /\ errs' = errs \o validateOptions(agent)
    /\ IF Len(errs') > 0
       THEN /\ ret' = "nil"
            /\ naPc' = "returned"
       ELSE IF ~agent.ctx
       THEN /\ ret' = "none"
            /\ naPc' = "panicked"
       ELSE /\ ret' = "agent"
            /\ naPc' = "returned"
    /\ UNCHANGED <<opts, optIdx, agent, applied>>
    /\ UNCHANGED <<streamVars, stateVars, pathVars, kaVars, lifeVars, opVars>>

----------------------------------------------------------------------------
(* Liveness loop: keepAlive                                                *)

\* the loop returns after a 'failed' response at a counter one above the threshold
kaExitsAboveThreshold(counter, thr) == counter > thr

\* `if errCounter >= a.keepAliveConfig.threshold { return }`
kaExits(counter, thr) == counter >= thr

\* a failed RPC resets the counter
counterAfterErrorReset(counter) == 0

\* `if err != nil { ...; continue }`: errCounter is not written
counterAfterError(counter) == counter

afterProbeErrorStops == "stopped"

\* `if err != nil { log; time.Sleep; <-retry.C; continue }`
afterProbeError == "retry_wait"

\* Start: `if a.keepAliveConfig.IsSet() { go a.keepAlive(...) }` with a
\* positive threshold; errCounter := 0
KaInit ==
    /\ kaPc = "select"
    /\ errCounter = 0
    /\ threshold \in 1..MaxThreshold
    /\ probes = 0
    /\ failedSince = 0
    /\ lastProbe = "none"

KaIdle ==
    /\ kaPc = "idle"
    /\ errCounter = 0
    /\ threshold = 1
    /\ probes = 0
    /\ failedSince = 0
    /\ lastProbe = "none"

\* `case <-ctx.Done()`: the tickers are stopped and the loop returns
KaCtxDone ==
    /\ kaPc = "select"
    /\ cancelled
    /\ kaPc' = "ctx_exit"
    /\ UNCHANGED <<errCounter, threshold, probes, failedSince, lastProbe>>
    /\ UNCHANGED <<streamVars, stateVars, pathVars, optVars, lifeVars, opVars>>

\* `case <-timer.C`: one KeepAlive RPC and the branches on its result; the
\* RPC on a cancelled context returns an error
KaProbe ==
    /\ kaPc = "select"
    /\ probes < MaxProbes
    /\ probes' = probes + 1
    /\ \E res \in (IF cancelled THEN {"err"} ELSE {"err", "success", "failed"}) :
        /\ lastProbe' = res
        /\ CASE res = "err" ->
                /\ kaPc' = afterProbeError
                /\ errCounter' = counterAfterError(errCounter)
                /\ UNCHANGED failedSince
          [] res = "failed" ->
                /\ errCounter' = errCounter + 1
                /\ failedSince' = failedSince + 1
                /\ kaPc' = (IF kaExits(errCounter + 1, threshold) THEN "stopped" ELSE "select")
          [] res = "success" ->
                /\ errCounter' = 0
                /\ failedSince' = 0
                /\ kaPc' = "select"
    /\ UNCHANGED threshold
    /\ UNCHANGED <<streamVars, stateVars, pathVars, optVars, lifeVars, opVars>>

\* time.Sleep(a.retryTimeout); <-retry.C; continue
KaRetry ==
    /\ kaPc = "retry_wait"
    /\ kaPc' = "select"
    /\ UNCHANGED <<errCounter, threshold, probes, failedSince, lastProbe>>
    /\ UNCHANGED <<streamVars, stateVars, pathVars, optVars, lifeVars, opVars>>

----------------------------------------------------------------------------
(* Agent lifecycle: Start, exitHandler, stop, register, unregister         *)

TaskNames == {"keepAlive", "configPump"}

LifeInit ==
    /\ stPc = "connect"
    /\ stopPc = "none"
    /\ lifeLog = <<>>
    /\ kaSet \in BOOLEAN
    /\ procExited = FALSE
    /\ ctxCancelled = FALSE
    /\ tasks = [t \in TaskNames |-> "none"]

LifeIdle ==
    /\ stPc = "connect"
    /\ stopPc = "none"
    /\ lifeLog = <<>>
    /\ kaSet = FALSE
    /\ procExited = FALSE
    /\ ctxCancelled = FALSE
    /\ tasks = [t \in TaskNames |-> "none"]

Did(step, ok) == [step |-> step, ok |-> ok]

\* a.connect(): grpc.Dial; on an error Start returns it
StConnect ==
    /\ ~procExited
    /\ stPc = "connect"
    /\ \E ok \in BOOLEAN :
        /\ lifeLog' = Append(lifeLog, Did("connect", ok))
        /\ stPc' = IF ok THEN "stubs" ELSE "returned_err"
    /\ UNCHANGED <<stopPc, kaSet, procExited, ctxCancelled, tasks>>
    /\ UNCHANGED <<streamVars, stateVars, pathVars, optVars, kaVars, opVars>>

\* a.stubs = &stubs{...}
StStubs ==
    /\ ~procExited
    /\ stPc = "stubs"
    /\ lifeLog' = Append(lifeLog, Did("stubs", TRUE))
    /\ stPc' = "register"
    /\ UNCHANGED <<stopPc, kaSet, procExited, ctxCancelled, tasks>>
    /\ UNCHANGED <<streamVars, stateVars, pathVars, optVars, kaVars, opVars>>

afterRegisterIgnoresFailure(ok) == "exit_handler"

\* register(): on an error or a status other than success logger.Fatal ends
\* the process, the `return fmt.Errorf(...)` after it is not reached
afterRegister(ok) == IF ok THEN "exit_handler" ELSE "fatal"

\* a.register(): one AgentRegister RPC
StRegister ==
    /\ ~procExited
    /\ stPc = "register"
    /\ \E ok \in BOOLEAN :
        /\ lifeLog' = Append(lifeLog, Did("register", ok))
        /\ stPc' = afterRegister(ok)
        /\ procExited' = (afterRegister(ok) = "fatal")
    /\ UNCHANGED <<stopPc, kaSet, ctxCancelled, tasks>>
    /\ UNCHANGED <<streamVars, stateVars, pathVars, optVars, kaVars, opVars>>

\* a.exitHandler(): signal.Notify and the goroutine that waits for the signal
StExitHandler ==
    /\ ~procExited
    /\ stPc = "exit_handler"
    /\ lifeLog' = Append(lifeLog, Did("exitHandler", TRUE))
    /\ stopPc' = "waiting"
    /\ stPc' = IF kaSet THEN "keepalive" ELSE "gnmi"
    /\ UNCHANGED <<kaSet, procExited, ctxCancelled, tasks>>
    /\ UNCHANGED <<streamVars, stateVars, pathVars, optVars, kaVars, opVars>>

\* go a.keepAlive(...)
StKeepAlive ==
    /\ ~procExited
    /\ stPc = "keepalive"
    /\ lifeLog' = Append(lifeLog, Did("keepAlive", TRUE))
    /\ tasks' = [tasks EXCEPT !["keepAlive"] = "running"]
    /\ stPc' = "gnmi"
    /\ UNCHANGED <<stopPc, kaSet, procExited, ctxCancelled>>
    /\ UNCHANGED <<streamVars, stateVars, pathVars, optVars, kaVars, opVars>>

\* a.newGNMITarget(): logger.Fatal when the target or the client cannot be created
StGnmi ==
    /\ ~procExited
    /\ stPc = "gnmi"
    /\ \E ok \in BOOLEAN :
        /\ lifeLog' = Append(lifeLog, Did("gnmi", ok))
        /\ stPc' = IF ok THEN "config" ELSE "fatal"
        /\ procExited' = ~ok
    /\ UNCHANGED <<stopPc, kaSet, ctxCancelled, tasks>>
    /\ UNCHANGED <<streamVars, stateVars, pathVars, optVars, kaVars, opVars>>

\* go a.receiveConfigNotifications(a.ctx); return nil
StConfigPump ==
    /\ ~procExited
    /\ stPc = "config"
    /\ lifeLog' = Append(lifeLog, Did("configPump", TRUE))
    /\ tasks' = [tasks EXCEPT !["configPump"] = "running"]
    /\ stPc' = "returned_nil"
    /\ UNCHANGED <<stopPc, kaSet, procExited, ctxCancelled>>
    /\ UNCHANGED <<streamVars, stateVars, pathVars, optVars, kaVars, opVars>>

\* <-sig in the goroutine of exitHandler: a.stop() begins
Signal ==
    /\ ~procExited
    /\ stopPc = "waiting"
    /\ stopPc' = "unregister"
    /\ UNCHANGED <<stPc, lifeLog, kaSet, procExited, ctxCancelled, tasks>>
    /\ UNCHANGED <<streamVars, stateVars, pathVars, optVars, kaVars, opVars>>

\* a.unregister() in stop(): on an error or a status other than success
\* logger.Fatal ends the process (os.Exit runs no deferred call)
StopUnregister ==
    /\ ~procExited
    /\ stopPc = "unregister"
    /\ \E ok \in BOOLEAN :
        /\ lifeLog' = Append(lifeLog, Did("unregister", ok))
        /\ stopPc' = IF ok THEN "close" ELSE "fatal"
        /\ procExited' = ~ok
    /\ UNCHANGED <<stPc, kaSet, ctxCancelled, tasks>>
    /\ UNCHANGED <<streamVars, stateVars, pathVars, optVars, kaVars, opVars>>

\* a.gRPCConn.Close() in stop(): an error is logged
StopClose ==
    /\ ~procExited
    /\ stopPc = "close"
    /\ \E ok \in BOOLEAN :
        lifeLog' = Append(lifeLog, Did("close", ok))
    /\ stopPc' = "cancel"
    /\ UNCHANGED <<stPc, kaSet, procExited, ctxCancelled, tasks>>
    /\ UNCHANGED <<streamVars, stateVars, pathVars, optVars, kaVars, opVars>>

\* stop() returns: the deferred a.cancel() runs
StopCancel ==
    /\ ~procExited
    /\ stopPc = "cancel"
    /\ lifeLog' = Append(lifeLog, Did("cancel", TRUE))
    /\ ctxCancelled' = TRUE
    /\ stopPc' = "done"
    /\ UNCHANGED <<stPc, kaSet, procExited, tasks>>
    /\ UNCHANGED <<streamVars, stateVars, pathVars, optVars, kaVars, opVars>>

\* a goroutine started by Start takes the ctx.Done() case and returns
TaskExit ==
    /\ ~procExited
    /\ ctxCancelled
    /\ \E t \in TaskNames :
        /\ tasks[t] = "running"
        /\ tasks' = [tasks EXCEPT ![t] = "stopped"]
    /\ UNCHANGED <<stPc, stopPc, lifeLog, kaSet, procExited, ctxCancelled>>
    /\ UNCHANGED <<streamVars, stateVars, pathVars, optVars, kaVars, opVars>>

----------------------------------------------------------------------------
(* Application-facing calls: RouteUpdate, NextHopGroupUpdate,              *)
(* AcknowledgeConfig                                                       *)

\* the sentinel error routeSyncStart / RouteAdd / routeSyncEnd and
\* nhgSyncStart / NextHopGroupAdd / nhgSyncEnd wrap on failure
Sentinel(kind, step) ==
    IF kind = "route"
    THEN CASE step = "SyncStart" -> "ErrRouteSyncStart"
           [] step = "AddOrUpdate" -> "ErrRouteAddOrUpdateFailed"
           [] OTHER -> "ErrRouteSyncEnd"
    ELSE CASE step = "SyncStart" -> "ErrNhgSyncStart"
           [] step = "AddOrUpdate" -> "ErrNhgAddOrUpdateFailed"
           [] OTHER -> "ErrNhgSyncEnd"

ackPrecheckAckOnly(cfg) ==
    IF ~cfg.configAck THEN "ErrAckCfgOptionNotSet" ELSE "nil"

\* the two option tests at the head of AcknowledgeConfig, in their order
ackPrecheck(cfg) ==
    IF ~cfg.configAck THEN "ErrAckCfgOptionNotSet"
    ELSE IF ~cfg.streamConfig THEN "ErrAckCfgAndNotStreamCfg"
    ELSE "nil"

Called(rpc, o) == [rpc |-> rpc, outcome |-> o]

OpInit ==
    /\ agentCfg \in [configAck : BOOLEAN, streamConfig : BOOLEAN]
    /\ opKind = "none"
    /\ opPc = "idle"
    /\ opCalls = <<>>
    /\ opRet = "none"
    /\ opCount = 0

OpIdle ==
    /\ agentCfg = [configAck |-> FALSE, streamConfig |-> FALSE]
    /\ opKind = "none"
    /\ opPc = "idle"
    /\ opCalls = <<>>
    /\ opRet = "none"
    /\ opCount = 0

\* the application calls RouteUpdate, NextHopGroupUpdate or AcknowledgeConfig
OpStart ==
    /\ opPc = "idle"
    /\ opCount < MaxOps
    /\ \E k \in {"route", "nhg", "ack"} :
        /\ opKind' = k
        /\ opPc' = IF k = "ack" THEN "ack" ELSE "SyncStart"
    /\ opCalls' = <<>>
    /\ opRet' = "none"
    /\ opCount' = opCount + 1
    /\ UNCHANGED agentCfg
    /\ UNCHANGED <<streamVars, stateVars, pathVars, optVars, kaVars, lifeVars>>

afterFailureEndsSync(step) == IF step = "AddOrUpdate" THEN "SyncEnd" ELSE "idle"

\* `if err != nil { return err }` after each of the three calls: the update
\* returns at once, whichever call failed
afterFailure(step) == "idle"

\* one of the three calls of RouteUpdate / NextHopGroupUpdate and the
\* `if err != nil { return err }` after it
UpdStep(step, next) ==
    /\ opKind \in {"route", "nhg"}
    /\ \E o \in Outcomes :
        /\ opCalls' = Append(opCalls, Called(step, o))
        /\ IF rpcFailed(o)
           THEN /\ opRet' = Sentinel(opKind, step)
                /\ opPc' = afterFailure(step)
           ELSE /\ opRet' = IF next = "idle" THEN "nil" ELSE opRet
                /\ opPc' = next
    /\ UNCHANGED <<agentCfg, opKind, opCount>>
    /\ UNCHANGED <<streamVars, stateVars, pathVars, optVars, kaVars, lifeVars>>

\* a.routeSyncStart() / a.nhgSyncStart()
UpdSyncStart ==
    /\ opPc = "SyncStart"
    /\ UpdStep("SyncStart", "AddOrUpdate")

\* a.RouteAdd(routes...) / a.NextHopGroupAdd(nhgs...)
UpdAdd ==
    /\ opPc = "AddOrUpdate"
    /\ UpdStep("AddOrUpdate", "SyncEnd")

\* a.routeSyncEnd() / a.nhgSyncEnd(), then `return nil`
UpdSyncEnd ==
    /\ opPc = "SyncEnd"
    /\ UpdStep("SyncEnd", "idle")

\* AcknowledgeConfig: the option tests, then the AcknowledgeConfig RPC
AckCall ==
    /\ opKind = "ack"
    /\ opPc = "ack"
    /\ IF ackPrecheck(agentCfg) # "nil"
       THEN /\ opRet' = ackPrecheck(agentCfg)
            /\ UNCHANGED opCalls
       ELSE \E o \in Outcomes :
            /\ opCalls' = Append(opCalls, Called("AcknowledgeConfig", o))
            /\ opRet' = IF rpcFailed(o) THEN "ErrAckCfgFailed" ELSE "nil"
    /\ opPc' = "idle"
    /\ UNCHANGED <<agentCfg, opKind, opCount>>
    /\ UNCHANGED <<streamVars, stateVars, pathVars, optVars, kaVars, lifeVars>>

----------------------------------------------------------------------------
(* Specifications                                                          *)

Init == StreamInit /\ StateIdle /\ PathIdle /\ OptIdle /\ KaIdle /\ LifeIdle /\ OpIdle

Next ==
    \/ RxCreateStream
    \/ RxCreateRetry
    \/ RxAddSubscription
    \/ PumpGetClient
    \/ PumpClientRetry
    \/ PumpRecv
    \/ PumpRetry
    \/ Handover
    \/ RxChanClosed
    \/ RxHandle
    \/ AppTake
    \/ Cancel

Spec == Init /\ [][Next]_vars

\* every task that can take a step eventually takes it, and the application
\* eventually reads from its channel; cancellation may or may not come
FairSpec ==
    /\ Init
    /\ [][Next]_vars
    /\ WF_vars(RxCreateStream)
    /\ WF_vars(RxCreateRetry)
    /\ WF_vars(RxAddSubscription)
    /\ WF_vars(PumpGetClient)
    /\ WF_vars(PumpClientRetry)
    /\ WF_vars(PumpRecv)
    /\ WF_vars(PumpRetry)
    /\ WF_vars(Handover)
    /\ WF_vars(RxChanClosed)
    /\ WF_vars(RxHandle)
    /\ WF_vars(AppTake)

ReadSpecInit == ReadInit /\ StateIdle /\ PathIdle /\ OptIdle /\ KaIdle /\ LifeIdle /\ OpIdle
ReadNext == Next \/ AppRead
ReadSpec == ReadSpecInit /\ [][ReadNext]_vars

StateSpecInit == StreamIdle /\ StateInit /\ PathIdle /\ OptIdle /\ KaIdle /\ LifeIdle /\ OpIdle
StateNext == UpdateState \/ DeleteState \/ DeleteAllState
StateSpec == StateSpecInit /\ [][StateNext]_vars

PathSpecInit == StreamIdle /\ StateIdle /\ PathInit /\ OptIdle /\ KaIdle /\ LifeIdle /\ OpIdle
PathNext == ToInternal \/ ToExternal
PathSpec == PathSpecInit /\ [][PathNext]_vars

OptSpecInit == StreamIdle /\ StateIdle /\ PathIdle /\ OptInit /\ KaIdle /\ LifeIdle /\ OpIdle
OptNext == ApplyOption \/ ValidateAndReturn
OptSpec == OptSpecInit /\ [][OptNext]_vars

KaSpecInit == StreamIdle /\ StateIdle /\ PathIdle /\ OptIdle /\ KaInit /\ LifeIdle /\ OpIdle
KaNext == KaProbe \/ KaRetry \/ KaCtxDone \/ Cancel
KaSpec == KaSpecInit /\ [][KaNext]_vars

LifeSpecInit == StreamIdle /\ StateIdle /\ PathIdle /\ OptIdle /\ KaIdle /\ LifeInit /\ OpIdle
LifeNext ==
    \/ StConnect
    \/ StStubs
    \/ StRegister
    \/ StExitHandler
    \/ StKeepAlive
    \/ StGnmi
    \/ StConfigPump
    \/ Signal
    \/ StopUnregister
    \/ StopClose
    \/ StopCancel
    \/ TaskExit
LifeSpec == LifeSpecInit /\ [][LifeNext]_vars

OpSpecInit == StreamIdle /\ StateIdle /\ PathIdle /\ OptIdle /\ KaIdle /\ LifeIdle /\ OpInit
OpNext == OpStart \/ UpdSyncStart \/ UpdAdd \/ UpdSyncEnd \/ AckCall
OpSpec == OpSpecInit /\ [][OpNext]_vars

----------------------------------------------------------------------------
(* Properties                                                              *)

IdLess(a, b) == a[1] < b[1] \/ (a[1] = b[1] /\ a[2] < b[2])

Aggregate == topic = "config" /\ ~streamConfig

\* C1: in aggregate mode every terminal marker whose commit_seq is not zero
\* that the handler has processed caused exactly one fetch and then exactly
\* one "full config ready" signal: the fetches are those of the processed
\* markers, the signals taken by the application are the fetched markers in
\* the same order, and a signal is outstanding only while the handler is
\* blocked sending it (or the failed fetch ended the process).
C1_OneFetchOneSignalPerCommit ==
    Aggregate =>
        /\ Len(fetchLog) = nzHandled
        /\ \A i, j \in 1..Len(fetchLog) : i < j => IdLess(fetchLog[i].id, fetchLog[j].id)
        /\ Len(delivered) = IF rxPc = "send_signal" \/ exited
                            THEN Len(fetchLog) - 1 ELSE Len(fetchLog)
        /\ \A i \in 1..Len(delivered) :
              delivered[i].what = "signal" /\ delivered[i].id = fetchLog[i].id

C1_Witness ==
    /\ Aggregate
    /\ Len(delivered) = 2
    /\ nzHandled = 2
    /\ rxPc = "range"

\* C2: a terminal marker whose commit_seq parses to 0 never causes a fetch and
\* never causes a signal, in aggregate mode and in streaming mode (where no
\* fetch and no signal happens at all).
C2_ZeroSeqSuppressed ==
    /\ \A i \in 1..Len(fetchLog) : ~fetchLog[i].zero
    /\ \A i \in 1..Len(delivered) : delivered[i].what = "signal" => ~delivered[i].zero
    /\ rxPc = "send_signal" => ~ZeroMarker(curNotif)
    /\ (topic = "config" /\ streamConfig) =>
          /\ fetchLog = <<>>
          /\ rxPc # "send_signal"
          /\ \A i \in 1..Len(delivered) : delivered[i].what # "signal"

\* the handler has passed a zero-sequence marker and a real commit: one fetch, one signal
C2_Witness ==
    /\ Aggregate
    /\ zHandled >= 1
    /\ nzHandled = 1
    /\ Len(fetchLog) = 1
    /\ Len(delivered) = 1
    /\ rxPc = "range"

\* C3: the application observes the payloads of a topic in the order in which
\* the pump received them, none twice: the ids taken are strictly increasing
\* in (envelope, position) and belong to envelopes that were received.
C3_DeliveryOrder ==
    /\ \A i, j \in 1..Len(delivered) : i < j => IdLess(delivered[i].id, delivered[j].id)
    /\ \A i \in 1..Len(delivered) :
          /\ delivered[i].id[1] \in 1..recvCount
          /\ delivered[i].id[2] \in 1..MaxNotifs

C3_Witness ==
    /\ topic = "route"
    /\ Len(delivered) >= 3
    /\ delivered[1].id[1] = 1
    /\ delivered[Len(delivered)].id[1] = 2
    /\ failedClient # 0

\* C4: after a receive that returned end-of-stream or an error the pump
\* receives on a newly obtained stream client, never again on the client that
\* failed.
C4_ReceiveOnNewClient ==
    pumpPc = "recv" => client # failedClient

TasksExited == exited \/ (pumpPc = "done" /\ chanClosed)

\* C5: once the context is cancelled the pump task exits and closes its
\* output channel, whatever the tasks were doing.
C5_CancelStopsPump == cancelled ~> TasksExited

\* C6: the pump has stopped, or its output channel is closed, only if the
\* context was cancelled.
C6_PumpStopsOnlyOnCancel ==
    (pumpPc = "done" \/ chanClosed) => cancelled

\* the pump is receiving again after a failed client acquisition and a failed receive
C6_Witness ==
    /\ ~cancelled
    /\ errCount = 2
    /\ failedClient # 0
    /\ pumpPc = "send"
    /\ ~chanClosed

CreateReturned == rxPc \notin {"create", "create_wait"}

\* C7: createNotificationStream returns only with the handle of a successful
\* create response, never with a failure, and a failed call is always
\* followed by the retry wait and another call: the wait is left only
\* towards the next call.
C7_CreateRetriesUntilSuccess ==
    /\ [](CreateReturned => (streamID # 0 /\ issued = {streamID}))
    /\ [](~CreateReturned => (streamID = 0 /\ issued = {}))
    /\ [][(rxPc = "create_wait" /\ rxPc' # rxPc) => rxPc' = "create"]_vars
    /\ [][(rxPc = "create" /\ rxPc' # rxPc /\ issued' = issued) => rxPc' = "create_wait"]_vars

C7_Witness ==
    /\ rxPc = "add_sub"
    /\ errCount = 2
    /\ streamID = 2

\* C8: DeleteState for a path that is not tracked returns
\* ErrStateDeleteFailed, issues no RPC and leaves the tracked paths as they were.
C8_DeleteUntrackedRejected ==
    (stLast.op = "delete" /\ stLast.path \notin stLast.before) =>
        /\ stLast.err = "ErrStateDeleteFailed"
        /\ stLast.rpc = <<>>
        /\ paths = stLast.before

C8_Witness ==
    /\ stLast.op = "delete"
    /\ stLast.path \notin stLast.before
    /\ Cardinality(stLast.before) >= 2

RootDeleted ==
    /\ stLast.op = "delete"
    /\ appRootPath # <<>>
    /\ stLast.path = appRootPath
    /\ stLast.err = "nil"

\* C9 as claimed: deleting the root path removes every tracked path that
\* equals the root or lies below it.
C9_RootDeleteRemovesSubtree ==
    RootDeleted => \A q \in stLast.before : EqualsOrBelow(appRootPath, q) => q \notin paths

\* C9 amended: a successful DeleteState of the root path removes the root
\* path's own entry and no other: the paths below the root stay tracked.
C9_RootDeleteRemovesRootOnly ==
    RootDeleted => paths = stLast.before \ {appRootPath}

C9_Witness ==
    /\ RootDeleted
    /\ ListEntryPath \in paths
    /\ ChildPath \in paths

\* C10: translating a hierarchical path to the internal notation and back
\* gives the path again.  Stated for the paths whose segment names hold no
\* underscore: a name with "_" and the same name with "-" have one internal
\* form, so for those no translation back can give both.
C10_RoundTrip ==
    (pPc = "back" /\ pIn \in HyphenXPaths) => pBack = pIn

----------------------------------------------------------------------------
(* Reading paths by region: the text of the key predicates and the text    *)
(* outside them, for a hierarchical path and for an internal path.         *)

\* the characters of xp inside its [...] blocks, "=" and "]" kept as the
\* marks between key, value and the next predicate
RECURSIVE KeyTextXP(_, _, _)
KeyTextXP(xp, i, inside) ==
    IF i > Len(xp) THEN <<>>
    ELSE IF ~inside THEN KeyTextXP(xp, i + 1, xp[i] = "[")
    ELSE IF xp[i] = "]" THEN <<"]">> \o KeyTextXP(xp, i + 1, FALSE)
    ELSE <<xp[i]>> \o KeyTextXP(xp, i + 1, TRUE)

Window(p, i, n) == IF i + n - 1 <= Len(p) THEN SubSeq(p, i, i + n - 1) ELSE <<>>

\* the same reading of an internal path: {. opens, ==" stands for "=", "} for "]"
RECURSIVE KeyTextJS(_, _, _)
KeyTextJS(js, i, inside) ==
    IF i > Len(js) THEN <<>>
    ELSE IF ~inside
         THEN IF Window(js, i, 2) = <<"{", ".">>
              THEN KeyTextJS(js, i + 2, TRUE)
              ELSE KeyTextJS(js, i + 1, FALSE)
    ELSE IF Window(js, i, 3) = <<"=", "=", "\"">>
         THEN <<"=">> \o KeyTextJS(js, i + 3, TRUE)
    ELSE IF Window(js, i, 2) = <<"\"", "}">>
         THEN <<"]">> \o KeyTextJS(js, i + 2, FALSE)
    ELSE <<js[i]>> \o KeyTextJS(js, i + 1, TRUE)

\* the characters of an internal path outside its {...} blocks
RECURSIVE SegTextJS(_, _, _)
SegTextJS(js, i, inside) ==
    IF i > Len(js) THEN <<>>
    ELSE IF ~inside
         THEN IF Window(js, i, 2) = <<"{", ".">>
              THEN SegTextJS(js, i + 2, TRUE)
              ELSE <<js[i]>> \o SegTextJS(js, i + 1, FALSE)
    ELSE IF Window(js, i, 2) = <<"\"", "}">>
         THEN SegTextJS(js, i + 2, FALSE)
    ELSE SegTextJS(js, i + 1, TRUE)

Holds(p, c) == \E i \in 1..Len(p) : p[i] = c

\* C11: convertXPathToJSPath leaves the text of every key predicate as it
\* is, "/" and "-" inside a key value included (only "[", "=" and "]" take
\* their internal form), while outside the predicates no "/" and no "-"
\* is left.
C11_KeyTextKept ==
    pPc = "js" =>
        /\ KeyTextJS(pJs, 1, FALSE) = KeyTextXP(pIn, 1, FALSE)
        /\ ~Holds(SegTextJS(pJs, 1, FALSE), "/")
        /\ ~Holds(SegTextJS(pJs, 1, FALSE), "-")

\* /a-b[k=e-1/1] has become .a_b{.k=="e-1/1"}
C11_Witness ==
    /\ pPc = "js"
    /\ pIn = <<"/", "a", "-", "b", "[", "k", "=", "e", "-", "1", "/", "1", "]">>
    /\ pJs = <<".", "a", "_", "b", "{", ".", "k", "=", "=", "\"", "e", "-", "1", "/", "1", "\"", "}">>

\* the reference translation, one character at a time with the position
\* inside or outside a predicate carried along
RECURSIVE RefXPathToJS(_, _, _)
RefXPathToJS(xp, i, inside) ==
    IF i > Len(xp) THEN <<>>
    ELSE IF ~inside
         THEN (CASE xp[i] = "/" -> <<".">>
                 [] xp[i] = "-" -> <<"_">>
                 [] xp[i] = "[" -> <<"{", ".">>
                 [] OTHER -> <<xp[i]>>) \o RefXPathToJS(xp, i + 1, xp[i] = "[")
    ELSE (CASE xp[i] = "=" -> <<"=", "=", "\"">>
            [] xp[i] = "]" -> <<"\"", "}">>
            [] OTHER -> <<xp[i]>>) \o RefXPathToJS(xp, i + 1, xp[i] # "]")

\* C12: on every well-formed hierarchical path convertXPathToJSPath gives the
\* reference translation; the empty path gives the empty path.
C12_EqualsReference ==
    pPc = "js" =>
        /\ pJs = RefXPathToJS(pIn, 1, FALSE)
        /\ pIn = <<>> => pJs = <<>>

\* a path with hyphens and two predicates has been translated
C12_Witness ==
    /\ pPc = "js"
    /\ pIn = <<"/", "a", "-", "b", "[", "k", "=", "x", "_", "y", "]",
               "/", "a", "[", "k", "=", "1", ".", "2", "]">>
    /\ pJs = <<".", "a", "_", "b", "{", ".", "k", "=", "=", "\"", "x", "_", "y", "\"", "}",
               ".", "a", "{", ".", "k", "=", "=", "\"", "1", ".", "2", "\"", "}">>

\* C13: convertJSPathToXPath gives every {.key=="value"} predicate of its
\* input as [key=value] with the text of key and value as it was.
C13_KeyTextKeptBack ==
    pPc \in {"back", "out"} => KeyTextXP(pBack, 1, FALSE) = KeyTextJS(pJs, 1, FALSE)

\* the input ends with one of the three tokens
EndsWithToken(p) ==
    \/ Len(p) >= 2 /\ SubSeq(p, Len(p) - 1, Len(p)) \in {<<"{", ".">>, <<"\"", "}">>}
    \/ Len(p) >= 3 /\ SubSeq(p, Len(p) - 2, Len(p)) = <<"=", "=", "\"">>

\* what a character outside the predicates is in the hierarchical notation
SegCharToXPath(c) == IF c = "." THEN "/" ELSE IF c = "_" THEN "-" ELSE c

\* C14: the last character of a non-empty input that does not end with a
\* token is in the output, as its last character.
C14_LastCharKept ==
    (pPc \in {"back", "out"} /\ pJs # <<>> /\ ~EndsWithToken(pJs)) =>
        /\ pBack # <<>>
        /\ pBack[Len(pBack)] = SegCharToXPath(pJs[Len(pJs)])

\* C15: an agent built with configAck, without streamConfig and with
\* autoCfgState gets both validation errors in the returned list.
C15_BothValidationErrors ==
    (naPc = "returned" /\ agent.configAck /\ ~agent.streamConfig /\ agent.autoCfgState) =>
        /\ \E i \in 1..Len(errs) : errs[i] = "ErrAckCfgAndNotStreamCfg"
        /\ \E i \in 1..Len(errs) : errs[i] = "ErrAckCfgAndAutoCfgState"

\* the error an option of this kind returns
OptionError(o) ==
    CASE o = "ctx_nil" -> "ErrContextNil"
      [] o = "keepalive_zero" -> "ErrKeepAliveZero"
      [] OTHER -> "nil"

RECURSIVE OptionErrors(_)
OptionErrors(os) ==
    IF os = <<>> THEN <<>>
    ELSE (IF OptionError(Head(os)) = "nil" THEN <<>> ELSE <<OptionError(Head(os))>>)
            \o OptionErrors(Tail(os))

ValidationErrors == {"ErrAckCfgAndNotStreamCfg", "ErrAckCfgAndAutoCfgState"}

\* C16: when NewAgent returns, every option was called once, in order; the
\* list starts with the errors of the failing options in option order and
\* goes on with validation errors only; the agent is nil exactly when the
\* list is not empty.
C16_AllOptionsAllErrors ==
    naPc = "returned" =>
        /\ applied = [i \in 1..Len(opts) |-> i]
        /\ Len(errs) >= Len(OptionErrors(opts))
        /\ SubSeq(errs, 1, Len(OptionErrors(opts))) = OptionErrors(opts)
        /\ \A i \in (Len(OptionErrors(opts)) + 1)..Len(errs) : errs[i] \in ValidationErrors
        /\ (ret = "nil") <=> (errs # <<>>)
        /\ (ret = "agent") <=> (errs = <<>>)

\* a failing option first, then options that were still applied, and a
\* validation error after the option errors
C16_Witness ==
    /\ naPc = "returned"
    /\ opts = <<"ctx_nil", "ack", "keepalive_zero">>
    /\ errs = <<"ErrContextNil", "ErrKeepAliveZero", "ErrAckCfgAndNotStreamCfg">>
    /\ agent.configAck
    /\ ret = "nil"

\* C17: a returned agent has streamConfig whenever it has configAck, and
\* never has configAck together with autoCfgState.
C17_ReturnedAgentValid ==
    ret = "agent" =>
        /\ agent.configAck => agent.streamConfig
        /\ ~(agent.configAck /\ agent.autoCfgState)

\* an agent with acknowledgement and streaming has been returned
C17_Witness ==
    /\ ret = "agent"
    /\ agent.configAck
    /\ agent.streamConfig
    /\ ~agent.autoCfgState

\* C18: keepAlive has returned from the threshold branch exactly when the
\* counter is at the threshold, and from then on it stays returned and no
\* KeepAlive RPC is sent.
C18_ThresholdExitTerminal ==
    /\ [](kaPc # "idle" => ((kaPc = "stopped") <=> (errCounter = threshold)))
    /\ [][kaPc = "stopped" => (kaPc' = "stopped" /\ probes' = probes)]_vars

\* the loop has stopped at the threshold after a success in between, with
\* probes left to send
C18_Witness ==
    /\ kaPc = "stopped"
    /\ threshold = 2
    /\ errCounter = 2
    /\ probes = 4
    /\ ~cancelled

\* C19: the counter is the number of 'failed' responses since the last
\* 'success' response, and below the threshold while the loop runs.
C19_CounterCountsFailures ==
    kaPc # "idle" =>
        /\ errCounter = failedSince
        /\ kaPc \in {"select", "retry_wait"} => errCounter \in 0..(threshold - 1)

\* failures counted across an RPC error: the counter is 2 of 3 while waiting to retry
C19_Witness ==
    /\ kaPc = "retry_wait"
    /\ threshold = 3
    /\ errCounter = 2
    /\ probes = 4

Streaming == topic = "config" /\ streamConfig

\* the Config Deltas of the notifications the model sends: the marker with its
\* path as received, the list entry with its paths in hierarchical notation
MarkerDeltas ==
    {[path |-> CommitEndKeyPath, pathWithoutKeys |-> CommitEndKeyPath, json |-> j] : j \in JsonVals}

ListEntryDelta ==
    [path |-> <<"/", "g", "/", "l", "[", "n", "=", "e", "]">>,
     pathWithoutKeys |-> <<"/", "g", "/", "l">>, json |-> NoJson]

ListEntryDeleted == [ListEntryDelta EXCEPT !.json = [valid |-> FALSE, seq |-> 0]]

Sending == rxPc \in {"send_signal", "send_cfg", "send_route"}

\* the step passes one notification that has a config payload and is not the
\* terminal marker
PassesNonMarker ==
    /\ rxPc = "handle"
    /\ plHandled' = plHandled + 1
    /\ nzHandled' = nzHandled
    /\ zHandled' = zHandled

\* C21: in aggregate mode the step in which the handler passes a config
\* notification that is not the terminal marker fetches nothing, does not start
\* to send a signal or a delta, leaves the stored full configuration and what
\* the application has received as they were, and does not end the process;
\* nothing but signals ever reaches the application in this mode.
C21_NonMarkerIgnored ==
    /\ [](Aggregate => /\ rxPc \notin {"send_cfg", "send_route"}
                       /\ \A i \in 1..Len(delivered) : delivered[i].what = "signal")
    /\ [][(Aggregate /\ PassesNonMarker) =>
            /\ fetchLog' = fetchLog
            /\ fullConfig' = fullConfig
            /\ delivered' = delivered
            /\ lastItem' = lastItem
            /\ exited' = exited
            /\ ~Sending']_vars

\* a commit was fetched and two list entries were passed: still one fetch, one
\* signal and the configuration of that commit
C21_Witness ==
    /\ Aggregate
    /\ plHandled = 3
    /\ nzHandled = 1
    /\ zHandled = 0
    /\ Len(fetchLog) = 1
    /\ Len(delivered) = 1
    /\ fullConfig.set
    /\ rxPc = "range"

\* a terminal marker whose Data.Json json.Unmarshal rejects
Unparsable(n) == n.payload /\ n.jsPath = CommitEndKeyPath /\ ~n.json.valid

\* C22: in aggregate mode the step in which the handler passes a terminal
\* marker whose commit_seq does not parse to 0, the marker with unparsable JSON
\* included, makes one fetch and then either blocks sending the signal or (the
\* fetch failed) ends the process; a signal being sent for an unparsable marker
\* is the signal of the fetch made for that marker; the application receives
\* signals only, and the process ends in no step other than a fetch.
C22_UnparsableMarkerSignals ==
    /\ [](Aggregate =>
            /\ (rxPc = "send_signal" /\ Unparsable(curNotif)) =>
                   /\ fetchLog # <<>>
                   /\ fetchLog[Len(fetchLog)].id = CurId
            /\ lastItem.what \in {"none", "signal"})
    /\ [][(Aggregate /\ rxPc = "handle" /\ nzHandled' = nzHandled + 1) =>
            /\ Len(fetchLog') = Len(fetchLog) + 1
            /\ fetchLog'[Len(fetchLog')].id = CurId
            /\ (rxPc' = "send_signal" /\ NonZeroMarker(curNotif')) \/ exited']_vars
    /\ [][(Aggregate /\ exited' /\ ~exited) => Len(fetchLog') = Len(fetchLog) + 1]_vars

\* the application has taken the signal of a marker with unparsable JSON, and
\* the configuration fetched for it is stored
C22_Witness ==
    /\ Aggregate
    /\ lastItem.what = "signal"
    /\ ~lastItem.json.valid
    /\ Len(delivered) = 1
    /\ nzHandled = 1
    /\ fullConfig.set
    /\ ~exited

\* the receiver passes a notification without the payload of its topic: it
\* goes on with the next notification of the envelope, or with the next
\* envelope after the last one, and nothing is written, fetched or ended
NilSkipped ==
    (/\ rxPc = "handle"
     /\ plHandled' = plHandled
     /\ (rxPc' # "handle" \/ idx' # idx)) =>
        /\ delivered' = delivered
        /\ fetchLog' = fetchLog
        /\ exited' = exited
        /\ ~Sending'
        /\ IF idx < cur.len
           THEN rxPc' = "handle" /\ idx' = idx + 1 /\ cur' = cur
           ELSE rxPc' = "range"

\* every notification with a payload that the receiver passed has been taken
\* from the output channel, or is the one being sent
PayloadsWritten == plHandled = Len(delivered) + (IF Sending THEN 1 ELSE 0)

\* C23 as stated: for every topic (the config topic in aggregate mode
\* included) a notification without payload is skipped and the loop goes on,
\* and every notification with a payload is written to the output channel.
C23_EveryPayloadWritten ==
    /\ [][NilSkipped]_vars
    /\ []PayloadsWritten

\* C23 amended: a notification without payload is skipped and the loop goes
\* on, for every topic; every notification with a payload that the receiver
\* passed is written to the output channel on the route topic and on the
\* config topic in streaming mode, in the order passed, while in aggregate
\* mode only the terminal markers with a commit_seq other than 0 lead to a
\* write, the signal.
C23_PayloadWrittenUnlessAggregate ==
    /\ [][NilSkipped]_vars
    /\ [](~Aggregate => PayloadsWritten)
    /\ [](Aggregate => (~exited => nzHandled = Len(delivered) + (IF Sending THEN 1 ELSE 0)))
    /\ [](Sending => curNotif.payload)

\* of the first envelope the first notification had no route payload and was
\* skipped, the second was written; a notification of the second envelope
\* was written as well
C23_Witness ==
    /\ topic = "route"
    /\ Len(delivered) = 2
    /\ delivered[1].id = <<1, 2>>
    /\ delivered[2].id[1] = 2
    /\ plHandled = 2

\* C24: the pump holds an envelope exactly while it is at the write to
\* streamChan, and the envelope is the one it received last; the receive
\* primitive returns an envelope only to a pump that holds none; while the
\* receiver is not at its read of streamChan the pump stays at the write with
\* the same envelope and receives nothing; and the write completes only in a
\* step in which the receiver takes the envelope.
C24_PumpBlocksOnWrite ==
    /\ []((held # NoEnvelope) <=> (pumpPc = "send"))
    /\ [](pumpPc = "send" => held.eid = recvCount)
    /\ [][recvCount' # recvCount =>
            /\ pumpPc = "recv"
            /\ held = NoEnvelope
            /\ recvCount' = recvCount + 1
            /\ held'.eid = recvCount']_vars
    /\ [][(pumpPc = "send" /\ rxPc # "range") =>
            /\ pumpPc' = "send"
            /\ held' = held
            /\ recvCount' = recvCount]_vars
    /\ [][(pumpPc = "send" /\ pumpPc' # "send") =>
            /\ rxPc = "range"
            /\ pumpPc' = "recv"
            /\ held' = NoEnvelope
            /\ rxPc' = "handle" => cur' = held]_vars

\* the pump is blocked with the second envelope while the receiver, still in
\* the first, is itself blocked sending to the application
C24_Witness ==
    /\ pumpPc = "send"
    /\ held.eid = 2
    /\ held.len = 2
    /\ Sending
    /\ cur.eid = 1
    /\ ~cancelled

\* the receiver passes a notification that is to be written to the
\* application's channel
WritesOne ==
    /\ rxPc = "handle"
    /\ plHandled' = plHandled + 1
    /\ ~Aggregate \/ nzHandled' = nzHandled + 1
    /\ ~exited'

\* C25 as stated: the output channel accepts every write whether or not the
\* consumer reads: the write puts the notification among the unread ones and
\* the receiver goes on without waiting.
C25_QueueAcceptsEveryWrite ==
    [][WritesOne => (Len(outQ') = Len(outQ) + 1 /\ ~Sending')]_vars

\* C25 amended: the output channel has no room at all: no notification is ever
\* stored in it, a write leaves the receiver waiting at the send, a receiver
\* that waits stays where it is in every step in which the consumer takes
\* nothing, and each notification the consumer takes is the one the receiver
\* is waiting to send; so at most one notification is written and unread.
C25_NoQueueCapacity ==
    /\ [](outQ = <<>>)
    /\ [](plHandled >= Len(delivered) /\
          (~Aggregate => plHandled - Len(delivered) = (IF Sending THEN 1 ELSE 0)))
    /\ [][WritesOne => (Sending' /\ curNotif'.payload /\ delivered' = delivered)]_vars
    /\ [][(Sending /\ delivered' = delivered) =>
            (rxPc' = rxPc /\ cur' = cur /\ idx' = idx /\ curNotif' = curNotif
             /\ plHandled' = plHandled)]_vars
    /\ [][delivered' # delivered =>
            /\ Sending
            /\ delivered' = Append(delivered, [id |-> CurId, what |-> sendKind(rxPc),
                                               zero |-> ZeroMarker(curNotif)])
            /\ ~Sending']_vars

\* the consumer has read nothing: the receiver waits with the first route
\* notification, the pump waits with the second envelope, and nothing more
\* can be received
C25_Witness ==
    /\ topic = "route"
    /\ rxPc = "send_route"
    /\ delivered = <<>>
    /\ plHandled = 1
    /\ cur.len = 2
    /\ pumpPc = "send"
    /\ held.eid = 2
    /\ outQ = <<>>

\* C26: the add-subscription call of a topic is made once, by a receiver that
\* has its stream handle and whose pump does not run yet; whatever the call
\* returns, the same step starts the pump and takes the receiver to its read
\* of streamChan; the pump runs exactly when the call has been made, and
\* after a failed call as well.
C26_OneSubscriptionCall ==
    /\ [](subCalls <= 1)
    /\ []((subCalls = 0) <=> (subResult = "none"))
    /\ []((pumpPc = "idle") <=> (subCalls = 0))
    /\ [][subCalls' # subCalls =>
            /\ subCalls = 0
            /\ subCalls' = 1
            /\ rxPc = "add_sub"
            /\ streamID \in issued
            /\ pumpPc = "idle"
            /\ pumpPc' = "get_client"
            /\ rxPc' = "range"
            /\ subResult' \in {"ok", "failed"}]_vars

\* the one call failed, and the pump has since obtained a client, received an
\* envelope and handed it to the receiver
C26_Witness ==
    /\ subResult = "failed"
    /\ subCalls = 1
    /\ ~cancelled
    /\ client = 1
    /\ recvCount = 1
    /\ rxPc = "handle"

\* the steps of Start in the order of its code, for this agent
ExpectedStart ==
    IF kaSet
    THEN <<"connect", "stubs", "register", "exitHandler", "keepAlive", "gnmi", "configPump">>
    ELSE <<"connect", "stubs", "register", "exitHandler", "gnmi", "configPump">>

IsStartStep(e) == e.step \in {"connect", "stubs", "register", "exitHandler", "keepAlive",
                              "gnmi", "configPump"}

\* what Start has done so far, without the steps of stop()
StartSteps == SelectSeq(lifeLog, IsStartStep)

Logged(step, ok) == \E i \in 1..Len(lifeLog) : lifeLog[i] = Did(step, ok)

\* C27: the steps Start has performed are an initial part of: connect, stubs,
\* register, exit handler, keepAlive (when configured, else left out), gNMI
\* client, config pump; each step but the last performed succeeded; a task
\* runs or ran only after a successful register; after a failed connect
\* (Start returns the error) or a failed register no task was started; and
\* Start returns nil only after all steps.
C27_StartOrder ==
    /\ Len(StartSteps) <= Len(ExpectedStart)
    /\ \A i \in 1..Len(StartSteps) :
          /\ StartSteps[i].step = ExpectedStart[i]
          /\ i < Len(StartSteps) => StartSteps[i].ok
    /\ \A t \in TaskNames :
          tasks[t] # "none" => (Logged(t, TRUE) /\ Logged("register", TRUE))
    /\ (Logged("connect", FALSE) \/ Logged("register", FALSE)) =>
          /\ \A t \in TaskNames : tasks[t] = "none" /\ ~Logged(t, TRUE)
          /\ stopPc = "none"
    /\ stPc = "returned_err" => StartSteps = <<Did("connect", FALSE)>>
    /\ stPc = "returned_nil" =>
          /\ Len(StartSteps) = Len(ExpectedStart)
          /\ \A i \in 1..Len(StartSteps) : StartSteps[i].ok
    /\ tasks["keepAlive"] # "none" => kaSet

\* Start has returned nil with the liveness loop configured: both tasks run
\* and the shutdown handler waits for its signal
C27_Witness ==
    /\ stPc = "returned_nil"
    /\ kaSet
    /\ tasks["keepAlive"] = "running"
    /\ tasks["configPump"] = "running"
    /\ stopPc = "waiting"
    /\ Len(lifeLog) = 7

\* stop() has come to its end: it returned, or the process ended inside it
StopEnded == stopPc \in {"done", "fatal"}

LogIndex(step) == CHOOSE i \in 1..Len(lifeLog) : lifeLog[i].step = step

\* C28: stop() issues unregister before it closes the transport and before it
\* cancels the context, and however unregister and Close turn out, stop()
\* does not end without the context having been cancelled.
C28_StopAlwaysCancels ==
    /\ (\E ok \in BOOLEAN : Logged("close", ok)) =>
          /\ \E ok \in BOOLEAN : Logged("unregister", ok)
          /\ LogIndex("unregister") < LogIndex("close")
    /\ ctxCancelled =>
          /\ \E ok \in BOOLEAN : Logged("unregister", ok)
          /\ LogIndex("unregister") < LogIndex("cancel")
    /\ StopEnded => ctxCancelled

\* the daemon calls of an update in the order of the code
UpdateOrder == <<"SyncStart", "AddOrUpdate", "SyncEnd">>

\* the error an update of `kind` is to return when its i-th call failed
ExpectedSentinel(kind, i) ==
    IF kind = "route"
    THEN <<"ErrRouteSyncStart", "ErrRouteAddOrUpdateFailed", "ErrRouteSyncEnd">>[i]
    ELSE <<"ErrNhgSyncStart", "ErrNhgAddOrUpdateFailed", "ErrNhgSyncEnd">>[i]

UpdateReturned == opKind \in {"route", "nhg"} /\ opPc = "idle"

\* C29: the calls RouteUpdate / NextHopGroupUpdate has issued are an initial
\* part of sync start, add/update, sync end; every call but the last issued
\* succeeded (nothing is called after an RPC error or a non-success status);
\* when the update has returned, it returned nil exactly when all three calls
\* were issued and succeeded, and otherwise the sentinel of the last call
\* issued, which failed; the six sentinels differ.
C29_UpdateStopsAtFirstFailure ==
    opKind \in {"route", "nhg"} =>
        /\ Len(opCalls) <= 3
        /\ \A i \in 1..Len(opCalls) :
              /\ opCalls[i].rpc = UpdateOrder[i]
              /\ i < Len(opCalls) => opCalls[i].outcome = "ok"
        /\ opPc # "idle" =>
              /\ opRet = "none"
              /\ Len(opCalls) < 3
              /\ opPc = UpdateOrder[Len(opCalls) + 1]
              /\ \A i \in 1..Len(opCalls) : opCalls[i].outcome = "ok"
        /\ opPc = "idle" =>
              /\ opCalls # <<>>
              /\ (opRet = "nil") <=>
                    (Len(opCalls) = 3 /\ \A i \in 1..3 : opCalls[i].outcome = "ok")
              /\ opCalls[Len(opCalls)].outcome # "ok" =>
                    opRet = ExpectedSentinel(opKind, Len(opCalls))
        /\ \A k1, k2 \in {"route", "nhg"} : \A i, j \in 1..3 :
              (k1 # k2 \/ i # j) => ExpectedSentinel(k1, i) # ExpectedSentinel(k2, j)

\* a NextHopGroupUpdate whose sync end came back with a non-success status,
\* made after another call
C29_Witness ==
    /\ UpdateReturned
    /\ opKind = "nhg"
    /\ opCount = 2
    /\ Len(opCalls) = 3
    /\ opCalls[3].outcome = "status"
    /\ opRet = "ErrNhgSyncEnd"

\* C30: when AcknowledgeConfig has returned: without configAck it returned
\* ErrAckCfgOptionNotSet (the first test, whatever streamConfig is), with
\* configAck and without streamConfig ErrAckCfgAndNotStreamCfg, and in both
\* cases no RPC was issued; with both it issued the one AcknowledgeConfig RPC
\* and returned ErrAckCfgFailed exactly when the RPC failed or its status was
\* not success, nil otherwise.
C30_AckOnlyWithBothOptions ==
    (opKind = "ack" /\ opPc = "idle") =>
        /\ ~agentCfg.configAck =>
              (opRet = "ErrAckCfgOptionNotSet" /\ opCalls = <<>>)
        /\ (agentCfg.configAck /\ ~agentCfg.streamConfig) =>
              (opRet = "ErrAckCfgAndNotStreamCfg" /\ opCalls = <<>>)
        /\ opCalls # <<>> => (agentCfg.configAck /\ agentCfg.streamConfig)
        /\ (agentCfg.configAck /\ agentCfg.streamConfig) =>
              /\ Len(opCalls) = 1
              /\ opCalls[1].rpc = "AcknowledgeConfig"
              /\ (opRet = "ErrAckCfgFailed") <=> (opCalls[1].outcome \in {"err", "status"})
              /\ (opRet = "nil") <=> (opCalls[1].outcome = "ok")
              /\ opRet \in {"ErrAckCfgFailed", "nil"}

\* both options enabled, the RPC answered with a status other than success
C30_Witness ==
    /\ opKind = "ack"
    /\ opPc = "idle"
    /\ agentCfg.configAck
    /\ agentCfg.streamConfig
    /\ opCalls = <<Called("AcknowledgeConfig", "status")>>
    /\ opRet = "ErrAckCfgFailed"

DeleteAllReturned == stLast.op = "deleteAll"

\* the paths of the calls of the last operation up to the n-th
CalledPaths(n) == {stLast.rpc[i].path : i \in 1..n}

\* C31: when DeleteAllState has returned, it issued TelemetryDelete calls for
\* distinct paths that were tracked, each with the key of its path, and every
\* call but the last succeeded; if it returned nil, every tracked path got a
\* successful delete and the set is empty; if not, it returned
\* ErrStateDeleteFailed, the call that failed is the last one issued, the
\* paths deleted before it are gone and all others (the failed one included)
\* are still tracked.
C31_DeleteAllState ==
    DeleteAllReturned =>
        LET n == Len(stLast.rpc)
        IN /\ \A i \in 1..n :
                 /\ stLast.rpc[i].call = "TelemetryDelete"
                 /\ stLast.rpc[i].path \in stLast.before
                 /\ stLast.rpc[i].jsPath = stateJsPath(stLast.rpc[i].path)
                 /\ i < n => stLast.rpc[i].ok
                 /\ \A j \in 1..n : i # j => stLast.rpc[i].path # stLast.rpc[j].path
           /\ stLast.err \in {"nil", "ErrStateDeleteFailed"}
           /\ stLast.err = "nil" =>
                 /\ CalledPaths(n) = stLast.before
                 /\ \A i \in 1..n : stLast.rpc[i].ok
                 /\ paths = {}
           /\ stLast.err # "nil" =>
                 /\ n >= 1
                 /\ ~stLast.rpc[n].ok
                 /\ paths = stLast.before \ CalledPaths(n - 1)
                 /\ stLast.rpc[n].path \in paths

\* of three tracked paths one was deleted, the delete of the second failed
\* and the third was not tried
C31_Witness ==
    /\ DeleteAllReturned
    /\ Cardinality(stLast.before) = 3
    /\ Len(stLast.rpc) = 2
    /\ stLast.err = "ErrStateDeleteFailed"
    /\ Cardinality(paths) = 2

\* the last call issued its RPC and the RPC came back with an error or with a
\* status other than success
StateRpcFailed ==
    /\ stLast.op \in {"update", "delete"}
    /\ stLast.rpc # <<>>
    /\ stLast.rpc[1].outcome \in {"err", "status"}

\* C32: when the TelemetryAddOrUpdate of an UpdateState or the TelemetryDelete
\* of a DeleteState failed (RPC error or non-success status), the call
\* returned ErrStateAddOrUpdateFailed resp. ErrStateDeleteFailed and the
\* Tracked Path Set is what it was before the call: the path of a failed
\* update is in it only if it was before, the path of a failed delete still is.
C32_FailedRpcKeepsPaths ==
    StateRpcFailed =>
        /\ paths = stLast.before
        /\ stLast.op = "update" =>
              /\ stLast.err = "ErrStateAddOrUpdateFailed"
              /\ (stLast.path \in paths) <=> (stLast.path \in stLast.before)
        /\ stLast.op = "delete" =>
              /\ stLast.err = "ErrStateDeleteFailed"
              /\ stLast.path \in paths

\* an UpdateState for a path not yet tracked got a non-success status
C32_Witness ==
    /\ StateRpcFailed
    /\ stLast.op = "update"
    /\ stLast.rpc[1].outcome = "status"
    /\ stLast.path = ListEntryPath
    /\ stLast.path \notin paths
    /\ Cardinality(paths) = 2

\* C33: a KeepAlive RPC that returns an error leaves errCounter as it was and
\* takes the loop to its retry wait, from which it goes back to the select
\* with the counter still unchanged; the loop has ended only through a
\* 'failed' status that brought the counter to the threshold, or through the
\* cancelled context.
C33_ProbeErrorKeepsLoop ==
    /\ [][(probes' = probes + 1 /\ lastProbe' = "err") =>
            (errCounter' = errCounter /\ failedSince' = failedSince
             /\ kaPc' = "retry_wait")]_vars
    /\ [][(kaPc = "retry_wait" /\ kaPc' # "retry_wait") =>
            (kaPc' = "select" /\ errCounter' = errCounter)]_vars
    /\ [](kaPc = "stopped" => (lastProbe = "failed" /\ errCounter = threshold))
    /\ [](kaPc = "ctx_exit" => cancelled)
    /\ [](kaPc \in {"select", "retry_wait"} => errCounter < threshold)

\* after a 'failed' status three probes in a row returned an error: the
\* counter is still 1 and the loop is back at its select, not cancelled
C33_Witness ==
    /\ probes = 4
    /\ lastProbe = "err"
    /\ failedSince = 1
    /\ errCounter = 1
    /\ kaPc = "select"
    /\ ~cancelled

\* C34: a topic's stream is created once (one successful create response,
\* whose handle createNotificationStream returns); the AddSubscription call
\* comes after it, the NotificationStream calls after that one and the
\* receives after a client was obtained; every AddSubscription and every
\* NotificationStream request, the first and the later ones, carries the
\* handle of that create response.
C34_CreateSubscribeReceive ==
    /\ [][issued' # issued =>
            (issued = {} /\ rxPc = "create" /\ rxPc' = "add_sub"
             /\ issued' = {streamID'})]_vars
    /\ [][streamID' # streamID => issued' # issued]_vars
    /\ [](\A u \in handleUsed : u.streamId = streamID /\ streamID \in issued)
    /\ []((subCalls > 0) <=> (\E u \in handleUsed : u.rpc = "AddSubscription"))
    /\ [](pumpPc # "idle" => subCalls > 0)
    /\ []((\E u \in handleUsed : u.rpc = "NotificationStream") => subCalls > 0)
    /\ []((client > 0 \/ recvCount > 0) =>
            (\E u \in handleUsed : u.rpc = "NotificationStream"))

\* the first NotificationStream call failed, a later one gave the client the
\* pump now receives on; the create call had failed once before it returned
\* handle 2
C34_Witness ==
    /\ streamID = 2
    /\ errCount = 2
    /\ client = 1
    /\ pumpPc = "recv"
    /\ handleUsed = {[rpc |-> "AddSubscription", streamId |-> 2, first |-> TRUE],
                     [rpc |-> "NotificationStream", streamId |-> 2, first |-> TRUE],
                     [rpc |-> "NotificationStream", streamId |-> 2, first |-> FALSE]}

\* C35: while the signal of a commit is being sent the last fetch is the one
\* made for that commit's marker, and Notifications.FullConfig is what it
\* returned: the snapshot of that commit, or nil when the response had no
\* update; the application takes a signal only from that send, with the stored
\* configuration untouched.  A fetch that fails ends the process, with nil
\* stored and no signal.
C35_SignalCarriesOwnSnapshot ==
    /\ [](rxPc = "send_signal" =>
            /\ fetchLog # <<>>
            /\ fetchLog[Len(fetchLog)].id = CurId
            /\ lastFetch \in {"ok", "empty"}
            /\ fullConfig = (IF lastFetch = "ok"
                             THEN [set |-> TRUE, at |-> CurId] ELSE NoConfig))
    /\ []((lastFetch = "error") <=> (exited /\ fetchLog # <<>>))
    /\ [](lastFetch = "error" => (fullConfig = NoConfig /\ rxPc # "send_signal"))
    /\ [][(Len(delivered') > Len(delivered)
            /\ delivered'[Len(delivered')].what = "signal") =>
              /\ rxPc = "send_signal"
              /\ delivered'[Len(delivered')].id = CurId
              /\ fullConfig' = fullConfig]_vars

\* the signals of two commits were received; the fetch of the second returned
\* no update and nil is stored
C35_Witness ==
    /\ Len(delivered) = 2
    /\ Len(fetchLog) = 2
    /\ lastItem.what = "signal"
    /\ lastFetch = "empty"
    /\ fullConfig = NoConfig
    /\ ~exited

\* C36: what the application reads from Notifications.FullConfig after it
\* received the signal of a commit is the value that was stored when that
\* signal was sent.
C36_ReadsSignalledSnapshot ==
    readGot.got = readGot.want

\* a call of the update in progress, or just returned, with its outcome
OpCalled(rpc, ok) ==
    \E i \in 1..Len(opCalls) :
        opCalls[i].rpc = rpc /\ ((opCalls[i].outcome = "ok") <=> ok)

\* C37 as stated: an update that has returned after a successful sync start
\* has issued sync end.
C37_SyncAlwaysClosed ==
    (UpdateReturned /\ OpCalled("SyncStart", TRUE)) =>
        (OpCalled("SyncEnd", TRUE) \/ OpCalled("SyncEnd", FALSE))

\* C37: sync end is issued exactly when sync start and add/update both
\* succeeded; an update that has returned after a successful sync start and a
\* failed add/update has issued no sync end and returned the add/update
\* sentinel.
C37_SyncEndOnlyAfterAdd ==
    /\ (opKind \in {"route", "nhg"} /\ opPc \in {"idle", "SyncEnd"}) =>
          ((OpCalled("SyncEnd", TRUE) \/ OpCalled("SyncEnd", FALSE) \/ opPc = "SyncEnd")
             <=> (OpCalled("SyncStart", TRUE) /\ OpCalled("AddOrUpdate", TRUE)))
    /\ (UpdateReturned /\ OpCalled("SyncStart", TRUE) /\ OpCalled("AddOrUpdate", FALSE)) =>
          /\ Len(opCalls) = 2
          /\ opRet = ExpectedSentinel(opKind, 2)

\* a RouteUpdate returned after sync start succeeded and the add failed with
\* an RPC error: two calls, no sync end
C37_Witness ==
    /\ UpdateReturned
    /\ opKind = "route"
    /\ opCalls = <<[rpc |-> "SyncStart", outcome |-> "ok"],
                   [rpc |-> "AddOrUpdate", outcome |-> "err"]>>
    /\ opRet = "ErrRouteAddOrUpdateFailed"

UpdateSucceeded(path) ==
    stLast'.op = "update" /\ stLast'.path = path /\ stLast'.err = "nil"

C39_OutputClosedOnceAtEnd ==
    /\ [](topic = "route" => (outClosed <=> rxPc = "done"))
    /\ [](outClosed => (topic = "route" /\ chanClosed /\ pumpPc = "done" /\ outQ = <<>>))
    /\ [][(outClosed' /\ ~outClosed) =>
            (chanClosed /\ rxPc = "range" /\ rxPc' = "done")]_vars
    /\ [][outClosed =>
            (outClosed' /\ delivered' = delivered /\ outQ' = outQ /\ rxPc' = "done")]_vars

\* two route notifications reached the application, then the context was
\* cancelled, the pump closed its channel and the receiver closed Route
C39_Witness ==
    /\ topic = "route"
    /\ outClosed
    /\ cancelled
    /\ Len(delivered) = 2
    /\ recvCount = 2

====
